---- MODULE Spec2Model ----
(***************************************************************************)
(* A model of src/utils.py, the helper behind the fast_dev_container shell *)
(* wrapper: the JSON config store (load_config, save_config,               *)
(* remove_config), the tables (list_containers, list_configs), the index   *)
(* resolver (resolve_index), compare_configs and normalize_volumes.        *)
(*                                                                         *)
(* Python strings are sequences of one-character strings, so that split,   *)
(* strip, lower, the regular expression of normalize_iso_timestamp and the *)
(* lexicographic sort are computed and not assumed.  A Python dict is a    *)
(* function whose DOMAIN is the set of keys present.                       *)
(***************************************************************************)
EXTENDS Integers, Sequences, FiniteSets, TLC

VARIABLES
    file,    \* the config file: [kind, data]
    now,     \* the wall clock, in whole seconds
    steps,   \* number of store mutations invoked so far
    stdin,   \* the lines piped to list_containers / resolve_index
    last,    \* the last invocation: [op, args, pre, at, index, trace]
    out,     \* what the last invocation printed / how it ended
    pc,      \* racing invocations: position of each process
    local,   \* racing invocations: the `data` dict each process holds
    pargs    \* racing invocations: the arguments of each process

vars == <<file, now, steps, stdin, last, out, pc, local, pargs>>

-----------------------------------------------------------------------------
(* Bounds *)

MaxSteps == 2
MaxClock == 1
MaxLines == 2

-----------------------------------------------------------------------------
(* Strings *)

\* The characters the model uses, in code point order.
Ascii ==
    <<" ", "+", ",", "-", ".", "/",
      "0", "1", "2", "3", "4", "5", "6", "7", "8", "9", ":",
      "A", "B", "C", "D", "E", "F", "G", "H", "I", "J", "K", "L", "M",
      "N", "O", "P", "Q", "R", "S", "T", "U", "V", "W", "X", "Y", "Z",
      "_",
      "a", "b", "c", "d", "e", "f", "g", "h", "i", "j", "k", "l", "m",
      "n", "o", "p", "q", "r", "s", "t", "u", "v", "w", "x", "y", "z",
      "|", "~">>

UpperCase ==
    <<"A", "B", "C", "D", "E", "F", "G", "H", "I", "J", "K", "L", "M",
      "N", "O", "P", "Q", "R", "S", "T", "U", "V", "W", "X", "Y", "Z">>
LowerCase ==
    <<"a", "b", "c", "d", "e", "f", "g", "h", "i", "j", "k", "l", "m",
      "n", "o", "p", "q", "r", "s", "t", "u", "v", "w", "x", "y", "z">>
Digits == {"0", "1", "2", "3", "4", "5", "6", "7", "8", "9"}
DigitChar == <<"0", "1", "2", "3", "4", "5", "6", "7", "8", "9">>

CharCode(c) == CHOOSE i \in 1..Len(Ascii) : Ascii[i] = c

\* str.lower() on one character
LowerChar(c) ==
    IF \E i \in 1..Len(UpperCase) : UpperCase[i] = c
    THEN LowerCase[CHOOSE i \in 1..Len(UpperCase) : UpperCase[i] = c]
    ELSE c

\* str.lower()
Lower(s) == [i \in 1..Len(s) |-> LowerChar(s[i])]

IsSpace(c) == c = " "

\* str.strip()
RECURSIVE LStrip(_)
LStrip(s) == IF s # <<>> /\ IsSpace(Head(s)) THEN LStrip(Tail(s)) ELSE s

RECURSIVE RStrip(_)
RStrip(s) ==
    IF s # <<>> /\ IsSpace(s[Len(s)]) THEN RStrip(SubSeq(s, 1, Len(s) - 1)) ELSE s

Strip(s) == RStrip(LStrip(s))

\* s.startswith(p)
StartsWith(s, p) == Len(p) <= Len(s) /\ SubSeq(s, 1, Len(p)) = p

\* `sub in s`
Contains(s, sub) ==
    \E i \in 1..(Len(s) - Len(sub) + 1) : SubSeq(s, i, i + Len(sub) - 1) = sub

\* str.split() without a separator: runs of whitespace separate, no empty
\* strings are produced.
RECURSIVE SplitWSAcc(_, _, _)
SplitWSAcc(s, cur, acc) ==
    IF s = <<>>
    THEN IF cur = <<>> THEN acc ELSE Append(acc, cur)
    ELSE IF IsSpace(Head(s))
         THEN SplitWSAcc(Tail(s), <<>>, IF cur = <<>> THEN acc ELSE Append(acc, cur))
         ELSE SplitWSAcc(Tail(s), Append(cur, Head(s)), acc)

SplitWS(s) == SplitWSAcc(s, <<>>, <<>>)

\* s.find(sub) + 1 when sub occurs in s
FirstAt(s, sub) ==
    CHOOSE i \in 1..(Len(s) - Len(sub) + 1) :
        /\ SubSeq(s, i, i + Len(sub) - 1) = sub
        /\ \A j \in 1..(i - 1) : SubSeq(s, j, j + Len(sub) - 1) # sub

\* str.split(sep): every occurrence of sep separates, from the left; empty
\* strings are kept.
RECURSIVE SplitSep(_, _)
SplitSep(s, sep) ==
    IF ~Contains(s, sep) THEN <<s>>
    ELSE LET i == FirstAt(s, sep)
         IN <<SubSeq(s, 1, i - 1)>> \o SplitSep(SubSeq(s, i + Len(sep), Len(s)), sep)

Pipes == <<"|", "|", "|">>

\* s < t for Python strings (code point order, a proper prefix is smaller)
RECURSIVE StrLess(_, _)
StrLess(s, t) ==
    IF t = <<>> THEN FALSE
    ELSE IF s = <<>> THEN TRUE
    ELSE IF CharCode(Head(s)) < CharCode(Head(t)) THEN TRUE
    ELSE IF CharCode(Head(s)) > CharCode(Head(t)) THEN FALSE
    ELSE StrLess(Tail(s), Tail(t))

\* sorted(S) for a set of strings
RECURSIVE SortedSet(_)
SortedSet(S) ==
    IF S = {} THEN <<>>
    ELSE LET m == CHOOSE x \in S : \A y \in S \ {x} : StrLess(x, y)
         IN <<m>> \o SortedSet(S \ {m})

Range(seq) == {seq[i] : i \in 1..Len(seq)}

\* the sequences of at most n elements of S
SeqsUpTo(S, n) == UNION {[1..k -> S] : k \in 0..n}

-----------------------------------------------------------------------------
(* Dicts *)

EmptyDict == [k \in {} |-> {}]

Has(d, k) == k \in DOMAIN d

\* d[k] = v
Put(d, k, v) == [x \in DOMAIN d \cup {k} |-> IF x = k THEN v ELSE d[x]]

\* d.pop(k, None)
Pop(d, k) == [x \in DOMAIN d \ {k} |-> d[x]]

-----------------------------------------------------------------------------
(* Values *)

\* Python's None, where an argument may be None or a string
None == <<"<None>">>

NameA == <<"a">>
NameB == <<"b">>
NameC == <<"c">>
Names == {NameA, NameB}

TrueStr == <<"t", "r", "u", "e">>
FalseStr == <<"f", "a", "l", "s", "e">>

\* datetime.now(timezone.utc).replace(microsecond=0).isoformat(): the date and
\* time down to the minute are abstracted to the character "T", the seconds
\* are the clock value.
IsoFormatUtc(t) == <<"T", DigitChar[t + 1], "+", "0", "0", ":", "0", "0">>

UtcOffset == <<"+", "0", "0", ":", "0", "0">>

\* .replace("+00:00", "Z") on the output of isoformat()
ReplaceOffsetWithZ(s) ==
    IF Len(s) >= Len(UtcOffset) /\ SubSeq(s, Len(s) - Len(UtcOffset) + 1, Len(s)) = UtcOffset
    THEN SubSeq(s, 1, Len(s) - Len(UtcOffset)) \o <<"Z">>
    ELSE s

-----------------------------------------------------------------------------
(* normalize_iso_timestamp *)

\* (?:Z|[+-]\d{2}:?\d{2})?$ : what may follow the fraction
IsZoneOrEnd(t) ==
    \/ t = <<>>
    \/ t = <<"Z">>
    \/ /\ Len(t) = 5
       /\ t[1] \in {"+", "-"}
       /\ \A i \in 2..5 : t[i] \in Digits
    \/ /\ Len(t) = 6
       /\ t[1] \in {"+", "-"}
       /\ t[2] \in Digits /\ t[3] \in Digits /\ t[4] = ":"
       /\ t[5] \in Digits /\ t[6] \in Digits

\* the last index of the run of digits that starts at index j (j - 1 if none)
RECURSIVE DigitRunEnd(_, _)
DigitRunEnd(s, j) ==
    IF j <= Len(s) /\ s[j] \in Digits THEN DigitRunEnd(s, j + 1) ELSE j - 1

\* TIMESTAMP_FRACTION_RE matches at index i
FractionMatchesAt(s, i) ==
    /\ s[i] = "."
    /\ DigitRunEnd(s, i + 1) >= i + 1
    /\ IsZoneOrEnd(SubSeq(s, DigitRunEnd(s, i + 1) + 1, Len(s)))

\* TIMESTAMP_FRACTION_RE.sub("", text, count=1)
StripFraction(s) ==
    LET M == {i \in 1..Len(s) : FractionMatchesAt(s, i)}
    IN IF M = {} THEN s
       ELSE LET i == CHOOSE x \in M : \A y \in M : x <= y
            IN SubSeq(s, 1, i - 1) \o SubSeq(s, DigitRunEnd(s, i + 1) + 1, Len(s))

\* mutant: the fraction is not removed
normalize_keeps_fraction(value) ==
    IF value = None THEN <<>> ELSE Strip(value)

normalize_iso_timestamp(value) ==
    IF value = None THEN <<>>
    ELSE IF Strip(value) = <<>> THEN <<>>
    ELSE StripFraction(Strip(value))

-----------------------------------------------------------------------------
(* save_config, one operator per group of statements *)

\* if ports: cfg["ports"] = [p if ":" in p else f"{p}:{p}" for p in ports.split() if p]
SavePorts(cfg, ports) ==
    IF ports # <<>>
    THEN LET ps == SplitWS(ports)
         IN Put(cfg, "ports",
                [i \in 1..Len(ps) |->
                    IF ":" \in Range(ps[i]) THEN ps[i] ELSE ps[i] \o <<":">> \o ps[i]])
    ELSE cfg

\* if image: cfg["image"] = image
SaveImage(cfg, image) == IF image # <<>> THEN Put(cfg, "image", image) ELSE cfg

\* mutant: an empty docker_cmd clears the field, as an empty project_path does
SaveDockerCmdClears(cfg, docker_cmd) ==
    IF docker_cmd # <<>> THEN Put(cfg, "docker_cmd", docker_cmd)
    ELSE Pop(cfg, "docker_cmd")

\* if docker_cmd: cfg["docker_cmd"] = docker_cmd
SaveDockerCmd(cfg, docker_cmd) ==
    IF docker_cmd # <<>> THEN Put(cfg, "docker_cmd", docker_cmd) ELSE cfg

\* mutant: an empty project_path keeps the field, as an empty image does
SaveProjectPathKeeps(cfg, project_path) ==
    IF project_path # <<>> THEN Put(cfg, "project_path", project_path) ELSE cfg

\* if project_path: ... else: cfg.pop("project_path", None)
SaveProjectPath(cfg, project_path) ==
    IF project_path # <<>> THEN Put(cfg, "project_path", project_path)
    ELSE Pop(cfg, "project_path")

\* if startup_cmd: ... else: cfg.pop("startup_cmd", None)
SaveStartupCmd(cfg, startup_cmd) ==
    IF startup_cmd # <<>> THEN Put(cfg, "startup_cmd", startup_cmd)
    ELSE Pop(cfg, "startup_cmd")

NonEmpty(v) == v # <<>>

\* if volumes: cfg["volumes"] = [v for v in volumes.split("|||") if v]
\* else: cfg.pop("volumes", None)
SaveVolumes(cfg, volumes) ==
    IF volumes # <<>>
    THEN Put(cfg, "volumes", SelectSeq(SplitSep(volumes, Pipes), NonEmpty))
    ELSE Pop(cfg, "volumes")

\* if socket_state is not None: ...
SaveSocket(cfg, socket_state) ==
    IF socket_state # None
    THEN LET socket_value == Lower(Strip(socket_state))
         IN IF socket_value \in {TrueStr, FalseStr}
            THEN Put(cfg, "socket", socket_value = TrueStr)
            ELSE Pop(cfg, "socket")
    ELSE cfg

\* `not cfg.get("created_at")`
CreatedAtUnset(cfg) == ~Has(cfg, "created_at") \/ cfg["created_at"] = <<>>

\* mutant: without an explicit value the creation time is always refreshed
SaveCreatedAtRefresh(cfg, created_at, t) ==
    LET given == normalize_iso_timestamp(created_at)
    IN Put(cfg, "created_at",
           IF given # <<>> THEN given
           ELSE normalize_iso_timestamp(ReplaceOffsetWithZ(IsoFormatUtc(t))))

\* created_at = normalize_iso_timestamp(created_at); if created_at: ... else: ...
SaveCreatedAt(cfg, created_at, t) ==
    LET given == normalize_iso_timestamp(created_at)
    IN IF given # <<>>
       THEN Put(cfg, "created_at", given)
       ELSE IF CreatedAtUnset(cfg)
            THEN Put(cfg, "created_at",
                     normalize_iso_timestamp(ReplaceOffsetWithZ(IsoFormatUtc(t))))
            ELSE cfg

\* mutant: the argument is compared as given, without strip() and lower()
SavePersistExact(cfg, persist) ==
    Put(cfg, "persist",
        persist \in {<<"t", "r", "u", "e">>, <<"1">>, <<"y", "e", "s">>, <<"o", "n">>})

PersistTruthy ==
    {TrueStr, <<"1">>, <<"y", "e", "s">>, <<"o", "n">>}

\* persist_str = str(persist).strip().lower() if persist else ""
\* cfg["persist"] = persist_str in ("true", "1", "yes", "on")
SavePersist(cfg, persist) ==
    LET persist_str == IF persist # <<>> THEN Lower(Strip(persist)) ELSE <<>>
    IN Put(cfg, "persist", persist_str \in PersistTruthy)

\* the record of container_name after save_config, from the record before
SaveRecord(cfg, a, t) ==
    LET c1 == SavePorts(cfg, a.ports)
        c2 == SaveImage(c1, a.image)
        c3 == SaveDockerCmd(c2, a.docker_cmd)
        c4 == SaveProjectPath(c3, a.project_path)
        c5 == SaveStartupCmd(c4, a.startup_cmd)
        c6 == SaveVolumes(c5, a.volumes)
        c7 == Pop(c6, "project_alias")
        c8 == SaveSocket(c7, a.socket_state)
        c9 == SaveCreatedAt(c8, a.created_at, t)
    IN SavePersist(c9, a.persist)

\* if container_name not in data: data[container_name] = {}
RecordOf(data, name) == IF Has(data, name) THEN data[name] ELSE EmptyDict

\* mutant: the document is rebuilt from the saved record alone
SaveDataOnlyOwn(data, a, t) ==
    Put(EmptyDict, a.name, SaveRecord(RecordOf(data, a.name), a, t))

\* the dict `data` that save_config dumps, from the dict it read
SaveData(data, a, t) == Put(data, a.name, SaveRecord(RecordOf(data, a.name), a, t))

-----------------------------------------------------------------------------
(* The config file *)

Missing == [kind |-> "missing", data |-> EmptyDict]
Unreadable == [kind |-> "unreadable", data |-> EmptyDict]
Malformed == [kind |-> "malformed", data |-> EmptyDict]
Valid(data) == [kind |-> "valid", data |-> data]

\* save_config: data = {}; if os.path.exists(...): try: data = json.load(f)
\* except (json.JSONDecodeError, OSError): pass
ReadOrEmpty(f) == IF f.kind = "valid" THEN f.data ELSE EmptyDict

-----------------------------------------------------------------------------
(* Arguments of the invocations *)

ArgFields ==
    {"ports", "image", "docker_cmd", "project_path", "startup_cmd",
     "socket_state", "created_at", "persist", "volumes"}

\* save_config <file> <name> and nothing else: every default of __main__
NoArgs(n) ==
    [name |-> n, ports |-> <<>>, image |-> <<>>, docker_cmd |-> <<>>,
     project_path |-> <<>>, startup_cmd |-> <<>>, socket_state |-> None,
     created_at |-> <<>>, persist |-> <<>>, volumes |-> <<>>]

\* a call that gives every argument
AllArgs(n) ==
    [name |-> n,
     ports |-> <<"9">>,
     image |-> <<"i">>,
     docker_cmd |-> <<"d">>,
     project_path |-> <<"/", "p">>,
     startup_cmd |-> <<"s">>,
     socket_state |-> <<"f", "a", "l", "s", "e">>,
     created_at |-> <<"T", "7", "Z">>,
     persist |-> <<"y", "e", "s">>,
     volumes |-> <<"m", ":", "/", "x">>]

\* the values each argument is drawn from
ArgValues ==
    [ports |->
        {<<>>, <<" ">>, <<"9">>,
         <<"8", " ", "3", ":", "4", " ", "8">>},               \* "8 3:4 8"
     image |-> {<<>>, <<"i">>},
     docker_cmd |-> {<<>>, <<"d">>},
     project_path |-> {<<>>, <<"/", "p">>},
     startup_cmd |-> {<<>>, <<"s">>},
     socket_state |->
        {None, <<>>, <<"T", "r", "u", "e">>, <<" ", "f", "a", "l", "s", "e">>,
         <<"x">>, <<"1">>},
     created_at |->
        {<<>>, <<" ">>, <<"T", "7", "Z">>,
         <<"T", "5", ".", "1", "2", "Z">>,                     \* "T5.12Z"
         <<" ", "T", "6", ".", "3", "+", "0", "0", ":", "0", "0", " ">>},
     persist |->
        {<<>>, <<"T", "R", "U", "E", " ">>, <<"1">>, <<"y", "e", "s">>,
         <<"o", "n">>, <<"n", "o">>},
     volumes |->
        {<<>>, <<"m", ":", "/", "x">>,
         <<"e", "|", "|", "|", "m", ":", "/", "x", "|", "|", "|", "e">>}]

\* The argument vectors of save_config: for the first name, the call that
\* gives no optional argument with one argument drawn from its values; for
\* every name, the call that gives none and the call that gives all; and the
\* call that gives all but socket_state.
SaveArgs ==
    UNION {{[NoArgs(NameA) EXCEPT ![f] = v] : v \in ArgValues[f]} : f \in ArgFields}
    \cup {NoArgs(n) : n \in Names}
    \cup {AllArgs(n) : n \in Names}
    \cup {[AllArgs(NameA) EXCEPT !.socket_state = None]}

-----------------------------------------------------------------------------
(* The invocations *)

NoOutput == [status |-> "ok", record |-> EmptyDict, text |-> <<>>, rows |-> <<>>]

Raised == [NoOutput EXCEPT !.status = "raised"]

NoProcs == [p \in {} |-> {}]

Invocation(op, a, f, t) ==
    [op |-> op, args |-> a, pre |-> f, at |-> t, index |-> <<>>, trace |-> <<>>]

\* mutant: the JSONDecodeError of a malformed file is not caught
SaveResultsAbortOnMalformed(f, a, t) ==
    IF f.kind = "malformed" THEN {[file |-> f, out |-> Raised]}
    ELSE {[file |-> Valid(SaveData(ReadOrEmpty(f), a, t)), out |-> NoOutput]}
         \cup (IF f.kind = "unreadable" THEN {[file |-> f, out |-> Raised]} ELSE {})

\* save_config: read the document, update the record, rewrite the document.
\* open(config_file, "w") succeeds on a missing, malformed or valid file (the
\* directory and the file are taken to be writable); on a file that cannot
\* be read it either succeeds (a write-only file) or raises, leaving the file
\* as it was.
SaveResults(f, a, t) ==
    {[file |-> Valid(SaveData(ReadOrEmpty(f), a, t)), out |-> NoOutput]}
    \cup (IF f.kind = "unreadable" THEN {[file |-> f, out |-> Raised]} ELSE {})

\* mutant: the document is emptied, as remove_all_configs does
RemoveDataClears(f, name) == IF f.kind = "valid" THEN Valid(EmptyDict) ELSE f

\* mutant: a file that is missing or cannot be parsed is rewritten as {}
RemoveDataResets(f, name) ==
    IF f.kind = "valid" THEN Valid(Pop(f.data, name))
    ELSE IF f.kind = "unreadable" THEN f ELSE Valid(EmptyDict)

\* remove_config: the document is rewritten only when it was read and parsed
RemoveData(f, name) == IF f.kind = "valid" THEN Valid(Pop(f.data, name)) ELSE f

\* load_config: FileNotFoundError and JSONDecodeError print {}; any other
\* OSError of open() is not caught.
LoadOutput(f, name) ==
    CASE f.kind = "valid" -> [NoOutput EXCEPT !.record = RecordOf(f.data, name)]
      [] f.kind = "missing" -> NoOutput
      [] f.kind = "malformed" -> NoOutput
      [] f.kind = "unreadable" -> Raised

-----------------------------------------------------------------------------
(* The sequential store: one invocation at a time *)

\* documents earlier invocations of save_config left behind
InitDocs ==
    {EmptyDict,
     SaveData(SaveData(EmptyDict, AllArgs(NameC), 0),
              [AllArgs(NameA) EXCEPT !.created_at = <<>>], 0)}

InitFiles == {Missing, Unreadable, Malformed} \cup {Valid(d) : d \in InitDocs}

Init ==
    /\ file \in InitFiles
    /\ now = 0
    /\ steps = 0
    /\ stdin = <<>>
    /\ last = Invocation("none", NoArgs(NameA), file, 0)
    /\ out = NoOutput
    /\ pc = NoProcs
    /\ local = NoProcs
    /\ pargs = NoProcs

Tick ==
    /\ now < MaxClock
    /\ now' = now + 1
    /\ UNCHANGED <<file, steps, stdin, last, out, pc, local, pargs>>

SaveConfig ==
    \E a \in SaveArgs :
        /\ steps < MaxSteps
        /\ steps' = steps + 1
        /\ last' = Invocation("save", a, file, now)
        /\ \E r \in SaveResults(file, a, now) :
              /\ file' = r.file
              /\ out' = r.out
        /\ UNCHANGED <<now, stdin, pc, local, pargs>>

RemoveConfig ==
    \E n \in Names :
        /\ steps < MaxSteps
        /\ steps' = steps + 1
        /\ last' = Invocation("remove", NoArgs(n), file, now)
        /\ file' = RemoveData(file, n)
        /\ out' = NoOutput
        /\ UNCHANGED <<now, stdin, pc, local, pargs>>

LoadConfig ==
    \E n \in Names \cup {NameC} :
        /\ last' = Invocation("load", NoArgs(n), file, now)
        /\ out' = LoadOutput(file, n)
        /\ UNCHANGED <<file, now, steps, stdin, pc, local, pargs>>

Next == Tick \/ SaveConfig \/ RemoveConfig \/ LoadConfig

Spec == Init /\ [][Next]_vars

-----------------------------------------------------------------------------
(* Claims about save_config and load_config, checked under Spec *)

\* the last invocation was a save_config that returned
SaveDone == last.op = "save" /\ out.status = "ok"

\* the record the last invocation was about, after it and before it
Rec == RecordOf(ReadOrEmpty(file), last.args.name)
PreRec == RecordOf(ReadOrEmpty(last.pre), last.args.name)

\* key k has the same presence and value in both records
SameField(c, d, k) == Has(c, k) = Has(d, k) /\ (Has(c, k) => c[k] = d[k])

\* "N" -> "N:N"
Expanded(pt) == IF ":" \in Range(pt) THEN pt ELSE pt \o <<":">> \o pt

\* C2: after save_config with a non-empty ports argument the stored ports are
\* the set of the expanded entries: no duplicate, in sorted order.
C2_PortsStoredAsSet ==
    (SaveDone /\ last.args.ports # <<>>) =>
        /\ Has(Rec, "ports")
        /\ Rec["ports"] =
              SortedSet({Expanded(pt) : pt \in Range(SplitWS(last.args.ports))})

\* C4: an empty project_path, startup_cmd, volumes or socket_state argument
\* removes that field, and save_config never removes image, docker_cmd, ports,
\* persist or created_at from a record that has them.
C4_EmptyRemovesOnlyOptional ==
    SaveDone =>
        /\ last.args.project_path = <<>> => ~Has(Rec, "project_path")
        /\ last.args.startup_cmd = <<>> => ~Has(Rec, "startup_cmd")
        /\ last.args.volumes = <<>> => ~Has(Rec, "volumes")
        /\ last.args.socket_state = <<>> => ~Has(Rec, "socket")
        /\ \A k \in {"image", "docker_cmd", "ports", "persist", "created_at"} :
              Has(PreRec, k) => Has(Rec, k)

C4_Witness ==
    /\ SaveDone
    /\ last.args = [NoArgs(NameA) EXCEPT !.socket_state = <<>>]
    /\ \A k \in {"project_path", "startup_cmd", "volumes", "socket", "image",
                 "docker_cmd", "ports", "persist", "created_at"} : Has(PreRec, k)
    /\ DOMAIN Rec = {"image", "docker_cmd", "ports", "persist", "created_at"}

\* C5 as stated: an empty ports, image, docker_cmd or persist argument leaves
\* the stored field as it was.
C5_EmptyLeavesUntouched ==
    SaveDone =>
        \A k \in {"ports", "image", "docker_cmd", "persist"} :
            (last.args[k] = <<>> /\ Has(PreRec, k)) =>
                (Has(Rec, k) /\ Rec[k] = PreRec[k])

\* C5 amended: an empty ports, image or docker_cmd argument leaves the stored
\* field as it was (present with the same value, or absent); an empty persist
\* argument stores persist = false.
C5_EmptyKeepsButPersistFalse ==
    SaveDone =>
        /\ \A k \in {"ports", "image", "docker_cmd"} :
              last.args[k] = <<>> => SameField(Rec, PreRec, k)
        /\ last.args.persist = <<>> => (Has(Rec, "persist") /\ Rec["persist"] = FALSE)

C5_Witness ==
    /\ SaveDone
    /\ \A k \in {"ports", "image", "docker_cmd", "persist"} :
          last.args[k] = <<>> /\ Has(PreRec, k)
    /\ PreRec["persist"] = TRUE
    /\ Rec["persist"] = FALSE
    /\ Rec["image"] = <<"i">>

\* a "." followed by a digit: sub-second precision
HasFraction(s) == \E i \in 1..(Len(s) - 1) : s[i] = "." /\ s[i + 1] \in Digits

\* C6: created_at is set by the first save; a later save without an explicit
\* created_at leaves it as it was, so it changes only when a non-empty
\* created_at is passed; no stored created_at carries a fraction of a second.
C6_CreatedAtSetOnce ==
    /\ SaveDone =>
          /\ Has(Rec, "created_at") /\ Rec["created_at"] # <<>>
          /\ (Has(PreRec, "created_at") /\ Rec["created_at"] # PreRec["created_at"])
                => last.args.created_at # <<>>
          /\ (~Has(PreRec, "created_at") /\ last.args.created_at = <<>>)
                => Rec["created_at"] = <<"T", DigitChar[last.at + 1], "Z">>
    /\ file.kind = "valid" =>
          \A n \in DOMAIN file.data :
              Has(file.data[n], "created_at") => ~HasFraction(file.data[n]["created_at"])

C6_Witness ==
    /\ SaveDone
    /\ last.args.created_at = <<>>
    /\ last.at = 1
    /\ Has(PreRec, "created_at")
    /\ Rec["created_at"] = <<"T", "0", "Z">>

\* C7: saving again with the same arguments, at the same or any later clock
\* value, rewrites the document that the first save left.
C7_SaveIdempotent ==
    SaveDone =>
        \A t \in last.at..MaxClock :
            SaveResults(file, last.args, t) = {[file |-> file, out |-> NoOutput]}

C7_Witness ==
    /\ SaveDone
    /\ steps = 2
    /\ last.at = 1
    /\ last.args = NoArgs(NameA)
    /\ last.pre = Valid(SaveData(EmptyDict, NoArgs(NameA), 0))
    /\ file = last.pre

\* C8: after save_config, persist is the boolean "the stripped, lower-cased
\* argument is one of true, 1, yes, on", whatever it was before; every stored
\* record has a boolean persist.
C8_PersistRecomputed ==
    /\ SaveDone =>
          /\ Has(Rec, "persist")
          /\ Rec["persist"] =
                (Lower(Strip(last.args.persist)) \in
                    {<<"t", "r", "u", "e">>, <<"1">>, <<"y", "e", "s">>, <<"o", "n">>})
    /\ file.kind = "valid" =>
          \A n \in DOMAIN file.data :
              Has(file.data[n], "persist") /\ file.data[n]["persist"] \in BOOLEAN

C8_Witness ==
    /\ SaveDone
    /\ last.args.persist = <<"T", "R", "U", "E", " ">>
    /\ Has(PreRec, "persist") /\ PreRec["persist"] = FALSE
    /\ Rec["persist"] = TRUE

\* C9: load_config never raises: it prints the record of the name when the
\* file is a document that has it, and {} in every other state of the file.
C9_LoadNeverRaises ==
    last.op = "load" =>
        /\ out.status = "ok"
        /\ out.record =
              IF last.pre.kind = "valid" /\ Has(last.pre.data, last.args.name)
              THEN last.pre.data[last.args.name]
              ELSE EmptyDict

\* C10: save_config on a missing or malformed file does not abort and leaves a
\* valid document that holds exactly one record, the one of the saved name.
C10_SaveOnBrokenFile ==
    (last.op = "save" /\ last.pre.kind \in {"missing", "malformed"}) =>
        /\ out.status = "ok"
        /\ file.kind = "valid"
        /\ DOMAIN file.data = {last.args.name}
        /\ file.data[last.args.name] = SaveRecord(EmptyDict, last.args, last.at)

C10_Witness ==
    /\ SaveDone
    /\ last.pre = Malformed
    /\ last.args = AllArgs(NameB)
    /\ file.kind = "valid"
    /\ DOMAIN file.data = {NameB}

\* C11: remove_config(name) returns without error; on a document it deletes
\* the record of the name when there is one, so that load_config(name) then
\* prints {}, and leaves every other record as it was (all of them when the
\* name is absent); a missing or malformed file is left exactly as it was.
C11_RemoveDeletesOnlyName ==
    last.op = "remove" =>
        /\ out.status = "ok"
        /\ last.pre.kind = "valid" =>
              /\ file.kind = "valid"
              /\ DOMAIN file.data = DOMAIN last.pre.data \ {last.args.name}
              /\ \A n \in DOMAIN file.data : file.data[n] = last.pre.data[n]
              /\ LoadOutput(file, last.args.name) = NoOutput
        /\ last.pre.kind \in {"missing", "malformed"} => file = last.pre

\* a record was removed from a document that keeps another one
C11_Witness ==
    /\ last.op = "remove"
    /\ last.pre.kind = "valid"
    /\ Has(last.pre.data, last.args.name)
    /\ file.kind = "valid"
    /\ ~Has(file.data, last.args.name)
    /\ DOMAIN file.data # {}

\* a removal found the file malformed
C11_WitnessMalformed ==
    /\ last.op = "remove"
    /\ last.pre = Malformed
    /\ file = Malformed

-----------------------------------------------------------------------------
(* list_containers and resolve_index: the merge of live and stored names *)

UpStr == <<"U", "p">>

\* parts = line.strip().split("|||")
LineParts(line) == SplitSep(Strip(line), Pipes)

\* parts[i - 1] if len(parts) >= i else ""
PartOr(parts, i) == IF Len(parts) >= i THEN parts[i] ELSE <<>>

\* list_containers: docker_containers, the dict built from the piped lines;
\* a line needs at least a name and a status, a later line replaces an
\* earlier one of the same name.
RECURSIVE ListDockerContainers(_)
ListDockerContainers(lines) ==
    IF lines = <<>> THEN EmptyDict
    ELSE LET before == ListDockerContainers(SubSeq(lines, 1, Len(lines) - 1))
             line == lines[Len(lines)]
             parts == LineParts(line)
         IN IF Strip(line) # <<>> /\ Len(parts) >= 2
            THEN Put(before, parts[1],
                     [status |-> parts[2],
                      mounts_json |-> PartOr(parts, 4),
                      socket_label |-> PartOr(parts, 5),
                      created_at |-> PartOr(parts, 6)])
            ELSE before

\* resolve_index: docker_containers[parts[0]] = True for every non-blank line
ResolveDockerNames(lines) ==
    {LineParts(lines[i])[1] : i \in {j \in 1..Len(lines) : Strip(lines[j]) # <<>>}}

\* config_data = {}; if os.path.exists(...): try: json.load
\* except (json.JSONDecodeError, OSError): pass
ConfigData(f) == IF f.kind = "valid" THEN f.data ELSE EmptyDict

\* mutant: every name with a live entry is shown as running
StatusDisplayLiveIsRunning(docker, name) ==
    IF Has(docker, name) THEN "Running" ELSE "Saved"

\* the status column of a row
StatusDisplay(docker, name) ==
    IF Has(docker, name)
    THEN IF Contains(docker[name].status, UpStr) THEN "Running" ELSE "Stopped"
    ELSE "Saved"

\* rows, in the order list_containers prints them; empty when it prints
\* "No dev containers found"
ListRows(lines, f) ==
    LET docker == ListDockerContainers(lines)
        names == SortedSet(DOMAIN docker \cup DOMAIN ConfigData(f))
    IN [i \in 1..Len(names) |->
           [idx |-> i,
            name |-> names[i],
            in_docker |-> Has(docker, names[i]),
            status_display |-> StatusDisplay(docker, names[i])]]

-----------------------------------------------------------------------------
(* Two invocations of save_config racing on one config file *)

Procs == {1, 2}

RaceArgs == {NoArgs(n) : n \in Names} \cup {AllArgs(n) : n \in Names}

\* open(config_file, "w") truncates: the file is empty, which json.load
\* rejects with JSONDecodeError
Truncated == Malformed

Event(p, ev) == [p |-> p, ev |-> ev]

InitRace ==
    /\ file \in {Missing} \cup {Valid(d) : d \in InitDocs}
    /\ pargs \in [Procs -> RaceArgs]
    /\ pc = [p \in Procs |-> "start"]
    /\ local = [p \in Procs |-> EmptyDict]
    /\ now = 0
    /\ steps = 0
    /\ stdin = <<>>
    /\ last = Invocation("race", NoArgs(NameA), file, 0)
    /\ out = NoOutput

\* lines 418-472: the document is read and the record updated in memory
RaceRead(p) ==
    /\ pc[p] = "start"
    /\ local' = [local EXCEPT ![p] = SaveData(ReadOrEmpty(file), pargs[p], now)]
    /\ pc' = [pc EXCEPT ![p] = "read"]
    /\ last' = [last EXCEPT !.trace = Append(@, Event(p, "read"))]
    /\ UNCHANGED <<file, now, steps, stdin, out, pargs>>

\* line 474: open(config_file, "w")
RaceOpen(p) ==
    /\ pc[p] = "read"
    /\ file' = Truncated
    /\ pc' = [pc EXCEPT ![p] = "opened"]
    /\ last' = [last EXCEPT !.trace = Append(@, Event(p, "open"))]
    /\ UNCHANGED <<now, steps, stdin, out, local, pargs>>

\* line 475 and the end of the with block: the content of the file is the
\* document this invocation holds
RaceDump(p) ==
    /\ pc[p] = "opened"
    /\ file' = Valid(local[p])
    /\ pc' = [pc EXCEPT ![p] = "done"]
    /\ last' = [last EXCEPT !.trace = Append(@, Event(p, "dump"))]
    /\ UNCHANGED <<now, steps, stdin, out, local, pargs>>

NextRace == \E p \in Procs : RaceRead(p) \/ RaceOpen(p) \/ RaceDump(p)

SpecRace == InitRace /\ [][NextRace]_vars

\* both invocations returned, and both had read before either opened the
\* file for writing
BothReadThenWrote ==
    /\ \A p \in Procs : pc[p] = "done"
    /\ last.trace[1].ev = "read"
    /\ last.trace[2].ev = "read"

LastWriter == last.trace[Len(last.trace)].p
FirstWriter == CHOOSE p \in Procs : p # LastWriter

-----------------------------------------------------------------------------
(* compare_configs: the stored record against candidate values *)

\* sep.join(parts)
RECURSIVE Join(_, _)
Join(parts, sep) ==
    IF parts = <<>> THEN <<>>
    ELSE IF Len(parts) = 1 THEN parts[1]
    ELSE parts[1] \o sep \o Join(Tail(parts), sep)

\* sorted(list): duplicates are kept
RECURSIVE SortedSeq(_)
SortedSeq(seq) ==
    IF seq = <<>> THEN <<>>
    ELSE LET i == CHOOSE j \in 1..Len(seq) :
                     \A k \in 1..Len(seq) : ~StrLess(seq[k], seq[j])
         IN <<seq[i]>> \o SortedSeq(SubSeq(seq, 1, i - 1) \o SubSeq(seq, i + 1, Len(seq)))

\* [x.strip() for x in seq]
StripAll(seq) == [i \in 1..Len(seq) |-> Strip(seq[i])]

\* ":" in v
HasColon(v) == ":" \in Range(v)

NoColon(v) == ~HasColon(v)

\* normalize_port: "N" -> "N:N"
normalize_port(port) ==
    IF port = <<>> THEN <<>>
    ELSE LET p == Strip(port)
         IN IF HasColon(p) THEN p ELSE p \o <<":">> \o p

\* mutant: the pairs are joined as given, in their order and with duplicates
JoinedPortsAsGiven(ports_list) ==
    LET given == SelectSeq(ports_list, NonEmpty)
    IN Join([i \in 1..Len(given) |-> normalize_port(given[i])], <<" ">>)

\* normalized = sorted(set(normalize_port(p) for p in ports_list if p))
\* return " ".join(normalized)
JoinedPorts(ports_list) ==
    Join(SortedSet({normalize_port(p) : p \in Range(SelectSeq(ports_list, NonEmpty))}),
         <<" ">>)

\* normalize_ports_list of a str: the candidate given on the command line
normalize_ports_str(ports) ==
    IF ports = <<>> THEN <<>>
    ELSE JoinedPorts(SelectSeq(StripAll(SplitWS(ports)), NonEmpty))

\* normalize_ports_list of a list: the stored value
normalize_ports_list(ports) ==
    IF ports = <<>> THEN <<>>
    ELSE JoinedPorts(StripAll(SelectSeq(ports, NonEmpty)))

\* "/var/run/docker.sock"
DockerSock == <<"/", "v", "a", "r", "/", "r", "u", "n", "/">> \o
    <<"d", "o", "c", "k", "e", "r", ".", "s", "o", "c", "k">>

DockerSockName == <<"d", "o", "c", "k", "e", "r", ".", "s", "o", "c", "k">>
SocketMount ==
    <<"/", "v", "a", "r", "/", "r", "u", "n", "/", "d", "o", "c", "k", "e", "r", ".", "s", "o", "c", "k", ":">> \o
      <<"/", "v", "a", "r", "/", "r", "u", "n", "/", "d", "o", "c", "k", "e", "r", ".", "s", "o", "c", "k">>

\* mutant: only the literal socket mount is filtered out
KeptVolumeLiteralOnly(v) == v # <<>> /\ v # SocketMount

\* if v and v != "/var/run/docker.sock:/var/run/docker.sock"
\*      and "docker.sock" not in v
KeptVolume(v) == v # <<>> /\ v # SocketMount /\ ~Contains(v, DockerSockName)

\* mutant: the kept entries are joined in the order given
JoinedVolumesAsGiven(volumes_list) ==
    Join(SelectSeq(volumes_list, KeptVolume), Pipes)

\* the filter, the two sorted groups and the join of normalize_volumes_list
JoinedVolumes(volumes_list) ==
    LET kept == SelectSeq(volumes_list, KeptVolume)
        mount_volumes == SortedSeq(SelectSeq(kept, HasColon))
        excluded_volumes == SortedSeq(SelectSeq(kept, NoColon))
    IN Join(mount_volumes \o excluded_volumes, Pipes)

\* normalize_volumes_list of a str: the candidate given on the command line
normalize_volumes_str(volumes) ==
    IF volumes = <<>> THEN <<>>
    ELSE IF Contains(volumes, Pipes)
         THEN JoinedVolumes(SelectSeq(StripAll(SplitSep(volumes, Pipes)), NonEmpty))
         ELSE JoinedVolumes(IF Strip(volumes) # <<>> THEN <<Strip(volumes)>> ELSE <<>>)

\* normalize_volumes_list of a list: the stored value
normalize_volumes_list(volumes) ==
    IF volumes = <<>> THEN <<>>
    ELSE JoinedVolumes(StripAll(SelectSeq(volumes, NonEmpty)))

\* normalize_socket of the stored value: absent, or the JSON boolean that
\* save_config writes
normalize_socket_saved(cfg) ==
    IF ~Has(cfg, "socket") THEN <<>>
    ELSE IF cfg["socket"] THEN TrueStr ELSE FalseStr

\* normalize_socket of the candidate, a str
normalize_socket(val) ==
    IF val = None THEN <<>>
    ELSE LET val_str == Lower(Strip(val))
         IN IF val_str \in {TrueStr, <<"1">>, <<"y", "e", "s">>} THEN TrueStr
            ELSE IF val_str \in {FalseStr, <<"0">>, <<"n", "o">>} THEN FalseStr
            ELSE <<>>

\* saved_config.get(key, "")
SavedField(saved_config, key) ==
    IF Has(saved_config, key) THEN saved_config[key] ELSE <<>>

\* result = {"differs": False, "changes": [], "old_values": {}}
NoChanges == [differs |-> FALSE, changes |-> <<>>, old_values |-> EmptyDict]

\* no stored configuration: result["differs"] = True
NoSavedConfig == [NoChanges EXCEPT !.differs = TRUE]

IsChanged(c) == c.old # c.new

\* the six comparisons, in the order of the code, each with the label it
\* appends to changes and the old value it records
CompareFields(saved_config, a) ==
    LET checks ==
            <<[label |-> "ports",
               old |-> normalize_ports_list(SavedField(saved_config, "ports")),
               new |-> normalize_ports_str(a.ports)],
              [label |-> "image",
               old |-> SavedField(saved_config, "image"), new |-> a.image],
              [label |-> "docker",
               old |-> SavedField(saved_config, "docker_cmd"), new |-> a.docker_cmd],
              [label |-> "project",
               old |-> SavedField(saved_config, "project_path"),
               new |-> a.project_path],
              [label |-> "socket",
               old |-> normalize_socket_saved(saved_config),
               new |-> normalize_socket(a.socket_state)],
              [label |-> "volumes",
               old |-> normalize_volumes_list(SavedField(saved_config, "volumes")),
               new |-> normalize_volumes_str(a.volumes)]>>
        changed == SelectSeq(checks, IsChanged)
    IN [differs |-> Len(changed) > 0,
        changes |-> [i \in 1..Len(changed) |-> changed[i].label],
        old_values |->
            [k \in {changed[i].label : i \in 1..Len(changed)} |->
                (CHOOSE c \in Range(changed) : c.label = k).old]]

\* mutant: an empty record is compared field by field like any other
CompareOutputEmptyByFields(f, a) ==
    CASE f.kind = "valid" ->
            [NoOutput EXCEPT !.record = CompareFields(RecordOf(f.data, a.name), a)]
      [] f.kind \in {"missing", "malformed"} ->
            [NoOutput EXCEPT !.record = NoSavedConfig]
      [] f.kind = "unreadable" -> Raised

\* compare_configs: what it prints.  FileNotFoundError and JSONDecodeError
\* print differs = true; any other OSError of open() is not caught.
CompareOutput(f, a) ==
    CASE f.kind = "valid" ->
            LET saved_config == RecordOf(f.data, a.name)
            IN IF saved_config = EmptyDict
               THEN [NoOutput EXCEPT !.record = NoSavedConfig]
               ELSE [NoOutput EXCEPT !.record = CompareFields(saved_config, a)]
      [] f.kind \in {"missing", "malformed"} ->
            [NoOutput EXCEPT !.record = NoSavedConfig]
      [] f.kind = "unreadable" -> Raised

\* a mount of a docker socket that is not the literal one
OtherSocketMount == <<"/", "r", "/">> \o DockerSockName \o <<":", "/", "s">>

\* the save_config calls that wrote the records compare_configs reads
StoredArgs ==
    {[AllArgs(NameA) EXCEPT !.ports = <<"8", " ", "3", ":", "4", " ", "8">>,
                            !.socket_state = <<"T", "r", "u", "e">>,
                            !.volumes = <<"e", "|", "|", "|", "m", ":", "/", "x", "|", "|", "|", "e">>],
     NoArgs(NameA),
     [NoArgs(NameA) EXCEPT !.ports = <<"9">>,
                           !.volumes = SocketMount \o Pipes \o <<"m", ":", "/", "x">>],
     [NoArgs(NameA) EXCEPT !.volumes = OtherSocketMount],
     NoArgs(NameB)}

\* the config files compare_configs may find; a record may be empty in a
\* document that was not written by save_config
DiffFiles ==
    {Missing, Unreadable, Malformed, Valid(Put(EmptyDict, NameA, EmptyDict))}
    \cup {Valid(SaveData(EmptyDict, a, 0)) : a \in StoredArgs}

\* the candidate values: every combination of these
DiffValues ==
    [ports |-> {<<>>, <<"9">>, <<"3", ":", "4", " ", "8">>, <<"8", " ", "8", " ", "3", ":", "4">>},
     image |-> {<<>>, <<"i">>},
     docker_cmd |-> {<<>>, <<"d">>},
     project_path |-> {<<>>, <<"/", "p">>},
     socket_state |-> {<<>>, <<"T", "R", "U", "E", " ">>, <<"n", "o">>, <<"x">>},
     volumes |->
        {<<>>, <<"m", ":", "/", "x">>, <<"m", ":", "/", "x", "|", "|", "|", "e">>,
         <<" ", "e", " ", "|", "|", "|", "e", "|", "|", "|", " ", "m", ":", "/", "x">>,
         SocketMount \o Pipes \o <<"m", ":", "/", "x">>,
         OtherSocketMount}]

DiffArgs ==
    {[NoArgs(n) EXCEPT !.ports = p, !.image = i, !.docker_cmd = d,
                       !.project_path = pp, !.socket_state = so, !.volumes = v] :
        n \in Names, p \in DiffValues.ports, i \in DiffValues.image,
        d \in DiffValues.docker_cmd, pp \in DiffValues.project_path,
        so \in DiffValues.socket_state, v \in DiffValues.volumes}

InitDiff ==
    /\ file \in DiffFiles
    /\ now = 0
    /\ steps = 0
    /\ stdin = <<>>
    /\ last = Invocation("none", NoArgs(NameA), file, 0)
    /\ out = NoOutput
    /\ pc = NoProcs
    /\ local = NoProcs
    /\ pargs = NoProcs

\* compare_configs writes nothing, so a second comparison finds what the
\* first one found: one comparison per behaviour covers them all
CompareConfigs ==
    \E a \in DiffArgs :
        /\ last.op = "none"
        /\ last' = Invocation("compare", a, file, now)
        /\ out' = CompareOutput(file, a)
        /\ UNCHANGED <<file, now, steps, stdin, pc, local, pargs>>

NextDiff == CompareConfigs

SpecDiff == InitDiff /\ [][NextDiff]_vars

-----------------------------------------------------------------------------
(* Claims about compare_configs, checked under SpecDiff *)

\* the record compare_configs found for the name
StoredRec == RecordOf(ReadOrEmpty(last.pre), last.args.name)

\* the last invocation compared a stored, non-empty record
CompareDone == last.op = "compare" /\ out.status = "ok" /\ StoredRec # EmptyDict

\* the ports of either side as a set of host:container pairs
StoredPortSet == {Expanded(pt) : pt \in Range(SavedField(StoredRec, "ports"))}
CandidatePortSet == {Expanded(pt) : pt \in Range(SplitWS(last.args.ports))}

\* the socket flag of either side: on, off or unset
StoredSocket ==
    IF ~Has(StoredRec, "socket") THEN "unset"
    ELSE IF StoredRec["socket"] THEN "on" ELSE "off"
CandidateSocket ==
    LET v == Lower(Strip(last.args.socket_state))
    IN IF v \in {TrueStr, <<"1">>, <<"y", "e", "s">>} THEN "on"
       ELSE IF v \in {FalseStr, <<"0">>, <<"n", "o">>} THEN "off"
       ELSE "unset"

\* the volume entries of either side
StoredVolumeEntries ==
    SelectSeq(StripAll(SavedField(StoredRec, "volumes")), NonEmpty)
CandidateVolumeEntries ==
    SelectSeq(StripAll(SplitSep(last.args.volumes, Pipes)), NonEmpty)

NotSocketMount(v) == v # SocketMount
NoDockerSock(v) == ~Contains(v, DockerSockName)

\* two lists hold the same entries the same number of times, which is when
\* their sorted mount groups and sorted excluded groups are the same sequences
Occurrences(seq, v) == Cardinality({i \in 1..Len(seq) : seq[i] = v})
SameEntries(s, t) ==
    \A v \in Range(s) \cup Range(t) : Occurrences(s, v) = Occurrences(t, v)

SameLiterals ==
    /\ SavedField(StoredRec, "image") = last.args.image
    /\ SavedField(StoredRec, "docker_cmd") = last.args.docker_cmd
    /\ SavedField(StoredRec, "project_path") = last.args.project_path

SameVolumesButSocketMount ==
    SameEntries(SelectSeq(StoredVolumeEntries, NotSocketMount),
                SelectSeq(CandidateVolumeEntries, NotSocketMount))

SameVolumesButDockerSock ==
    SameEntries(SelectSeq(StoredVolumeEntries, NoDockerSock),
                SelectSeq(CandidateVolumeEntries, NoDockerSock))

\* C12: when the stored record and the candidate values are the same after
\* normalization (ports as a set of pairs, image, docker_cmd and project_path
\* literally, the socket flag, the volumes without the socket mount and in
\* any order) compare_configs prints differs = false and no change.
C12_SameMeansNoDiff ==
    (/\ CompareDone
     /\ StoredPortSet = CandidatePortSet
     /\ SameLiterals
     /\ StoredSocket = CandidateSocket
     /\ SameVolumesButSocketMount) => out.record = NoChanges

\* the candidate gives the stored ports and volumes in another order, with
\* other duplicates and other spelling of the flag
C12_Witness ==
    /\ CompareDone
    /\ SavedField(StoredRec, "ports") =
          <<<<"8", ":", "8">>, <<"3", ":", "4">>, <<"8", ":", "8">>>>
    /\ last.args.ports = <<"3", ":", "4", " ", "8">>
    /\ last.args.socket_state = <<"T", "R", "U", "E", " ">>
    /\ SavedField(StoredRec, "volumes") = <<<<"e">>, <<"m", ":", "/", "x">>, <<"e">>>>
    /\ last.args.volumes = <<" ", "e", " ", "|", "|", "|", "e", "|", "|", "|", " ", "m", ":", "/", "x">>
    /\ out.record = NoChanges

\* C13: ports are compared as sets of host:container pairs: "ports" is
\* reported exactly when the two sets differ, and when they differ and every
\* other field is the same the changes are ["ports"] alone, differs = true.
C13_PortsComparedAsSets ==
    CompareDone =>
        /\ ("ports" \in Range(out.record.changes)) = (StoredPortSet # CandidatePortSet)
        /\ (/\ StoredPortSet # CandidatePortSet
            /\ SameLiterals
            /\ StoredSocket = CandidateSocket
            /\ SameVolumesButSocketMount) =>
                /\ out.record.changes = <<"ports">>
                /\ out.record.differs = TRUE
                /\ DOMAIN out.record.old_values = {"ports"}

\* stored 8:8 3:4 8:8 against candidate 9, everything else the same
C13_Witness ==
    /\ CompareDone
    /\ StoredPortSet = {<<"8", ":", "8">>, <<"3", ":", "4">>}
    /\ CandidatePortSet = {<<"9", ":", "9">>}
    /\ out.record.changes = <<"ports">>
    /\ out.record.differs = TRUE
    /\ out.record.old_values["ports"] = <<"3", ":", "4", " ", "8", ":", "8">>

\* C14 as claimed: "volumes" is reported exactly when the two lists differ
\* once the literal socket mount, and nothing else, is dropped from both.
C14_VolumesButLiteralMount ==
    CompareDone =>
        ("volumes" \in Range(out.record.changes)) = ~SameVolumesButSocketMount

\* C14: "volumes" is reported exactly when the two lists differ once every
\* entry that contains "docker.sock" is dropped from both, the entries of
\* each list taken in sorted order, mounts before excluded paths.
C14_VolumesButDockerSock ==
    CompareDone =>
        ("volumes" \in Range(out.record.changes)) = ~SameVolumesButDockerSock

\* a stored mount of another docker socket path against no candidate volume
C14_Witness ==
    /\ CompareDone
    /\ SavedField(StoredRec, "volumes") = <<OtherSocketMount>>
    /\ last.args.volumes = <<>>
    /\ "volumes" \notin Range(out.record.changes)

\* C15: when the name has no stored configuration (file missing, file
\* malformed, name absent or record empty) compare_configs prints
\* differs = true with empty changes and old_values, whatever the candidates.
C15_NothingStoredDiffers ==
    (/\ last.op = "compare"
     /\ last.pre.kind \in {"missing", "malformed", "valid"}
     /\ StoredRec = EmptyDict) =>
        /\ out.status = "ok"
        /\ out.record = [differs |-> TRUE, changes |-> <<>>, old_values |-> EmptyDict]

\* an empty record compared with candidates that are all empty
C15_Witness ==
    /\ last.op = "compare"
    /\ last.pre = Valid(Put(EmptyDict, NameA, EmptyDict))
    /\ last.args = [NoArgs(NameA) EXCEPT !.socket_state = <<>>]
    /\ out.record.differs = TRUE

-----------------------------------------------------------------------------
(* The stored volumes, checked under Spec *)

\* C16: in every document that sequences of save_config calls leave, each
\* stored volumes list has no entry twice and has every mount (an entry with
\* ":") before every excluded path (an entry without).
C16_StoredVolumesNormalized ==
    file.kind = "valid" =>
        \A n \in DOMAIN file.data :
            LET vs == SavedField(file.data[n], "volumes")
            IN \A i, j \in 1..Len(vs) :
                  i < j => /\ vs[i] # vs[j]
                           /\ ~(NoColon(vs[i]) /\ HasColon(vs[j]))

-----------------------------------------------------------------------------
(* normalize_volumes: the volumes as they are stored *)

\* the number of entries of a volumes argument
MaxVols == 2

ProjectPlaceholder ==
    <<"_", "_", "P", "R", "O", "J", "E", "C", "T", "_", "P", "A", "T", "H", "_", "_">>
HomePlaceholder == <<"_", "_", "H", "O", "M", "E", "_", "_">>

\* os.path.expanduser("~") and os.getcwd(): a home directory and a working
\* directory under it
HomeDir == <<"/", "h">>
WorkDir == <<"/", "h", "/", "w">>

\* s.replace(old, new), old not empty
RECURSIVE ReplaceAll(_, _, _)
ReplaceAll(s, old, new) ==
    IF ~Contains(s, old) THEN s
    ELSE LET i == FirstAt(s, old)
         IN SubSeq(s, 1, i - 1) \o new
            \o ReplaceAll(SubSeq(s, i + Len(old), Len(s)), old, new)

\* s.replace(old, new, 1) when s.startswith(old)
ReplacePrefix(s, old, new) == new \o SubSeq(s, Len(old) + 1, Len(s))

\* source, dest = v.split(":", 1)
ColonAt(v) == CHOOSE i \in 1..Len(v) : v[i] = ":" /\ \A j \in 1..(i - 1) : v[j] # ":"
SourceOf(v) == SubSeq(v, 1, ColonAt(v) - 1)
DestOf(v) == SubSeq(v, ColonAt(v) + 1, Len(v))

\* the placeholders are expanded: __PROJECT_PATH__ when project_path is
\* given, __HOME__ always
ExpandPlaceholders(vol, project_path) ==
    LET e1 == IF Contains(vol, ProjectPlaceholder) /\ project_path # <<>>
              THEN ReplaceAll(vol, ProjectPlaceholder, project_path)
              ELSE vol
    IN IF Contains(vol, HomePlaceholder)
       THEN ReplaceAll(e1, HomePlaceholder, HomeDir)
       ELSE e1

\* a mount whose source starts with "./" gets project_path, or the working
\* directory, in place of the "."
ExpandRelative(v, project_path) ==
    IF HasColon(v) /\ StartsWith(SourceOf(v), <<".", "/">>)
    THEN (IF project_path # <<>> THEN project_path ELSE WorkDir)
         \o Tail(SourceOf(v)) \o <<":">> \o DestOf(v)
    ELSE v

\* mutant: the prefix is added whether or not the name already has it
WithPrefixAlways(n, container_name) ==
    IF ~StartsWith(n, <<"/">>) /\ ~StartsWith(n, <<".">>)
    THEN container_name \o <<".">> \o n
    ELSE n

\* a name that is neither absolute nor relative gets the prefix
\* "<container_name>." unless it has it
WithPrefix(n, container_name) ==
    IF ~StartsWith(n, <<"/">>) /\ ~StartsWith(n, <<".">>)
       /\ ~StartsWith(n, container_name \o <<".">>)
    THEN container_name \o <<".">> \o n
    ELSE n

\* the source of a mount, or the whole of an excluded path, is prefixed
PrefixNamed(v, container_name) ==
    IF HasColon(v)
    THEN WithPrefix(SourceOf(v), container_name) \o <<":">> \o DestOf(v)
    ELSE WithPrefix(v, container_name)

\* a leading project_path, then a leading home directory, is collapsed
CollapseVolume(v, project_path) ==
    LET c1 == IF project_path # <<>> /\ StartsWith(v, project_path)
              THEN ReplacePrefix(v, project_path, ProjectPlaceholder)
              ELSE v
    IN IF StartsWith(c1, HomeDir) THEN ReplacePrefix(c1, HomeDir, HomePlaceholder)
       ELSE c1

\* one entry through the loop body of normalize_volumes
NormalizeEntry(vol, container_name, project_path) ==
    CollapseVolume(
        PrefixNamed(ExpandRelative(ExpandPlaceholders(vol, project_path), project_path),
                    container_name),
        project_path)

\* normalize_volumes: the string it prints
normalize_volumes(volumes, container_name, project_path) ==
    IF volumes = <<>> THEN <<>>
    ELSE LET volume_list ==
                 SelectSeq(SelectSeq(StripAll(SplitSep(volumes, Pipes)), NonEmpty),
                           NotSocketMount)
             normalized_list ==
                 [i \in 1..Len(volume_list) |->
                     NormalizeEntry(volume_list[i], container_name, project_path)]
         IN Join(SortedSeq(SelectSeq(normalized_list, HasColon))
                 \o SortedSeq(SelectSeq(normalized_list, NoColon)), Pipes)

\* the entries a volumes argument is made of
NormEntries ==
    {<<".", "/", "s", ":", "/", "a">>,                     \* ./s:/a
     <<"d">>,
     <<"n", ":", "/", "a">>,                          \* n:/a
     <<"c", ".", "d">>,
     <<"/", "p", "/", "s", ":", "/", "a">>,           \* /p/s:/a, under the project
     <<"/", "o", ":", "/", "a">>,                     \* /o:/a
     <<"/", "h", "/", "s", ":", "/", "a">>,           \* /h/s:/a, under home
     <<".", "/", "e">>,
     <<" ", "d", " ">>,
     <<" ">>,
     ProjectPlaceholder \o <<"/", "s", ":", "/", "a">>,
     HomePlaceholder \o <<"/", "s", ":", "/", "a">>,
     SocketMount}

\* the example call: ./src:/app|||data, myctr, /home/u/proj
ExampleNormArgs ==
    [NoArgs(<<"m", "y", "c", "t", "r">>) EXCEPT
        !.volumes =
            <<".", "/", "s", "r", "c", ":", "/", "a", "p", "p", "|", "|", "|", "d", "a", "t", "a">>,
        !.project_path =
            <<"/", "h", "o", "m", "e", "/", "u", "/", "p", "r", "o", "j">>]

NormArgs ==
    {[NoArgs(n) EXCEPT !.volumes = Join(vs, Pipes), !.project_path = pp] :
        n \in {<<"c">>, <<"n">>}, vs \in SeqsUpTo(NormEntries, MaxVols),
        pp \in {<<>>, <<"/", "p">>}}
    \cup {ExampleNormArgs}

InitNorm ==
    /\ file = Missing
    /\ now = 0
    /\ steps = 0
    /\ stdin = <<>>
    /\ last = Invocation("none", NoArgs(NameA), file, 0)
    /\ out = NoOutput
    /\ pc = NoProcs
    /\ local = NoProcs
    /\ pargs = NoProcs

\* normalize_volumes reads its arguments only: one call per behaviour
NormalizeVolumes ==
    \E a \in NormArgs :
        /\ last.op = "none"
        /\ last' = Invocation("normalize", a, file, now)
        /\ out' = [NoOutput EXCEPT
                      !.text = normalize_volumes(a.volumes, a.name, a.project_path)]
        /\ UNCHANGED <<file, now, steps, stdin, pc, local, pargs>>

NextNorm == NormalizeVolumes

SpecNorm == InitNorm /\ [][NextNorm]_vars

-----------------------------------------------------------------------------
(* Claims about normalize_volumes, checked under SpecNorm *)

NormDone == last.op = "normalize"

\* the entries given and the entries printed
GivenEntries == SelectSeq(StripAll(SplitSep(last.args.volumes, Pipes)), NonEmpty)
PrintedEntries == SelectSeq(SplitSep(out.text, Pipes), NonEmpty)

\* a bare name: not a path, absolute or relative
IsBareName(n) == n # <<>> /\ n[1] \notin {"/", "."} /\ "/" \notin Range(n)

\* n with the prefix of the container, unless it has it
Prefixed(n) ==
    IF StartsWith(n, last.args.name \o <<".">>) THEN n
    ELSE last.args.name \o <<".">> \o n

\* the source of a mount lies under project_path
UnderProject(src) ==
    last.args.project_path # <<>> /\ StartsWith(src, last.args.project_path \o <<"/">>)

\* what the claim says of the bare names, of the socket mount and of the
\* order of the printed entries
NamesSocketAndOrder ==
    /\ \A e \in Range(GivenEntries) :
          /\ (HasColon(e) /\ IsBareName(SourceOf(e))) =>
                Prefixed(SourceOf(e)) \o <<":">> \o DestOf(e) \in Range(PrintedEntries)
          /\ (NoColon(e) /\ IsBareName(e)) => Prefixed(e) \in Range(PrintedEntries)
    /\ SocketMount \notin Range(PrintedEntries)
    /\ Len(PrintedEntries) = Len(SelectSeq(GivenEntries, NotSocketMount))
    /\ \A i, j \in 1..Len(PrintedEntries) :
          i < j => ~(NoColon(PrintedEntries[i]) /\ HasColon(PrintedEntries[j]))

\* a mount from under the project is printed with the placeholder
UnderProjectCollapsed ==
    \A e \in Range(GivenEntries) :
        (HasColon(e) /\ UnderProject(SourceOf(e))) =>
            ProjectPlaceholder
            \o SubSeq(SourceOf(e), Len(last.args.project_path) + 1, Len(SourceOf(e)))
            \o <<":">> \o DestOf(e) \in Range(PrintedEntries)

\* a mount of ./x is printed as __PROJECT_PATH__/x
RelativeCollapsed ==
    \A e \in Range(GivenEntries) :
        (HasColon(e) /\ StartsWith(SourceOf(e), <<".", "/">>)) =>
            ProjectPlaceholder \o Tail(SourceOf(e)) \o <<":">> \o DestOf(e)
                \in Range(PrintedEntries)

C17_WitnessExample == NormDone /\ last.args = ExampleNormArgs

-----------------------------------------------------------------------------
(* The tables of list_containers and list_configs: the visible text *)

\* The text of a line is the sequence of the characters that
\* visible_length counts: the ANSI colour codes are left out, a symbol such
\* as "<gear>" is one code point and "<vs16>" is the variation selector that
\* follows some of them.

NAME_MIN_WIDTH == 28

\* s.endswith(p)
EndsWith(s, p) == Len(p) <= Len(s) /\ SubSeq(s, Len(s) - Len(p) + 1, Len(s)) = p

\* max(S) of a non-empty set of numbers
Max(S) == CHOOSE x \in S : \A y \in S : y <= x

\* f"{text:<{width}}", and pad_to_width: blanks are added only to a shorter text
LJust(text, width) ==
    text \o [i \in 1..(IF width > Len(text) THEN width - Len(text) ELSE 0) |-> " "]
RJust(text, width) ==
    [i \in 1..(IF width > Len(text) THEN width - Len(text) ELSE 0) |-> " "] \o text

\* build_mode_indicators
build_mode_indicators(name, persist) ==
    (IF StartsWith(name, <<"f", "d", "e", "v", "c", ".", "v", "m", ".">>)
     THEN <<" ", "<screen>", "<vs16>", " ">> \o <<"V", "M", " ", "m", "o", "d", "e">> ELSE <<>>)
    \o (IF EndsWith(name, <<".", "t", "m", "p">>)
        THEN <<" ", "<clock>", " ">> \o <<"e", "p", "h", "e", "m", "e", "r", "a", "l">> ELSE <<>>)
    \o (IF persist THEN <<" ", "<infinity>", " ", " ">> \o <<"p", "e", "r", "s", "i", "s", "t">> ELSE <<>>)

\* os.path.abspath(os.path.expanduser(path)) of a path without "." and ".."
\* segments: "~" is the home directory, a relative path is under the working
\* directory
AbsPath(path) ==
    IF path = <<"~">> \/ StartsWith(path, <<"~", "/">>) THEN HomeDir \o Tail(path)
    ELSE IF StartsWith(path, <<"/">>) THEN path
    ELSE IF StartsWith(path, <<".", "/">>) THEN WorkDir \o Tail(path)
    ELSE WorkDir \o <<"/">> \o path

\* collapse_home_path
collapse_home_path(path) ==
    IF path = <<>> THEN path
    ELSE IF AbsPath(path) = HomeDir THEN <<"~">>
    ELSE IF StartsWith(AbsPath(path), HomeDir \o <<"/">>)
         THEN <<"~">> \o SubSeq(AbsPath(path), Len(HomeDir) + 1, Len(AbsPath(path)))
         ELSE path

\* prettify_placeholder_path; project_path is <<>> when it is not given
prettify_placeholder_path(path, project_path) ==
    IF path = <<>> THEN path
    ELSE IF path = ProjectPlaceholder THEN <<".">>
    ELSE IF path = HomePlaceholder THEN <<"~">>
    ELSE IF StartsWith(path, ProjectPlaceholder \o <<"/">>)
         THEN <<".", "/">> \o SubSeq(path, 18, Len(path))
    ELSE IF StartsWith(path, HomePlaceholder \o <<"/">>)
         THEN <<"~", "/">> \o SubSeq(path, 10, Len(path))
    ELSE LET display == collapse_home_path(path)
         IN IF StartsWith(project_path, <<"/">>) /\ StartsWith(display, <<"/">>)
            THEN IF display = project_path THEN <<".">>
                 ELSE IF StartsWith(display, project_path \o <<"/">>)
                      THEN <<".", "/">>
                           \o SubSeq(display, Len(project_path) + 2, Len(display))
                      ELSE display
            ELSE display

\* _is_docker_image_name
IsDockerImageName(path) ==
    LET basename == SplitSep(path, <<"/">>)[Len(SplitSep(path, <<"/">>))]
    IN IF EndsWith(path, <<".", "D", "o", "c", "k", "e", "r", "f", "i", "l", "e">>)
          \/ EndsWith(path, <<"/", "D", "o", "c", "k", "e", "r", "f", "i", "l", "e">>)
       THEN FALSE
       ELSE IF HasColon(path) /\ ~StartsWith(path, <<"/">>)
               /\ ~StartsWith(path, <<".", "/">>)
            THEN TRUE
       ELSE IF StartsWith(path, <<".", "/">>) \/ StartsWith(path, <<"/">>) THEN FALSE
       ELSE "/" \in Range(path) /\ "." \notin Range(basename)

DefaultImageText == <<"<whale>", " ">> \o <<"d", "e", "f", "a", "u", "l", "t", " ", "i", "m", "a", "g", "e">>

\* format_image_display, for an image that is not the default image of the
\* environment; cfg.get("image") is <<>> when the field is absent
format_image_display(image_val, project_path) ==
    IF image_val = <<>> THEN DefaultImageText
    ELSE IF IsDockerImageName(image_val) THEN <<"<whale>", " ">> \o image_val
    ELSE IF StartsWith(project_path, <<"/">>)
            /\ (AbsPath(image_val) = project_path
                \/ StartsWith(AbsPath(image_val), project_path \o <<"/">>))
         THEN <<"<whale>", " ", ".", "/">>
              \o (IF AbsPath(image_val) = project_path THEN <<".">>
                  ELSE SubSeq(AbsPath(image_val), Len(project_path) + 2,
                              Len(AbsPath(image_val))))
         ELSE <<"<whale>", " ">> \o image_val

\* format_socket_display of a boolean
format_socket_display(socket_enabled) ==
    <<IF socket_enabled THEN "<check>" ELSE "<cross>", " ">> \o <<"s", "o", "c", "k", "e", "t">>

\* format_ports_display of the stored list: one text, the ports separated by
\* a line break and four blanks, every ":" shown as " -> "
format_ports_display(ports_val) ==
    ReplaceAll(Join([i \in 1..Len(ports_val) |-> <<"<shuffle>", " ">> \o ports_val[i]],
                    <<"\n", " ", " ", " ", " ">>),
               <<":">>, <<" ", "-", ">", " ">>)

\* format_volume_display of a non-empty volume
format_volume_display(volume, project_path, container_name) ==
    LET source == IF HasColon(volume) THEN SourceOf(volume) ELSE volume
        bare == IF container_name # <<>> /\ StartsWith(source, container_name \o <<".">>)
                THEN SubSeq(source, Len(container_name) + 2, Len(source))
                ELSE source
    IN IF HasColon(volume)
       THEN prettify_placeholder_path(bare, project_path)
            \o <<" ", "-", ">", " ">> \o DestOf(volume)
       ELSE <<"<noentry>", " ", "-", ">", " ">>
            \o prettify_placeholder_path(bare, project_path)

\* strftime("%Y-%m-%d %H:%M") of the minute that "T" stands for
DateDisplay == <<"Y", "Y", "Y", "Y", "-", "M", "M", "-", "D", "D", " ", "H", "H", ":", "M", "M">>

\* format_created_timestamp: a text that parses as a timestamp ("T", the
\* seconds, then nothing, "Z" or an offset) is shown as date and minute, any
\* other text as it is
format_created_timestamp(raw) ==
    LET text == Strip(raw)
    IN IF text = <<>> THEN <<>>
       ELSE IF Len(text) >= 2 /\ text[1] = "T" /\ text[2] \in Digits
               /\ SubSeq(text, 3, Len(text)) \in {<<>>, <<"Z">>, UtcOffset}
            THEN DateDisplay
            ELSE text

\* str(idx)
RECURSIVE IntText(_)
IntText(i) ==
    IF i < 10 THEN <<DigitChar[i + 1]>>
    ELSE IntText(i \div 10) \o <<DigitChar[(i % 10) + 1]>>

\* the mounts of a live entry: the fallback of list_containers for a text
\* that is not JSON, a list separated by commas
ParsedMounts(mounts_json) ==
    IF mounts_json \in {<<>>, <<"n", "u", "l", "l">>, <<"[", "]">>} THEN <<>>
    ELSE IF "," \in Range(mounts_json)
         THEN SelectSeq(StripAll(SplitSep(mounts_json, <<",">>)), NonEmpty)
         ELSE <<mounts_json>>

\* mutant: the socket label of the live entry decides before the stored flag
SocketEnabledLiveFirst(cfg, info) ==
    LET socket_label == Lower(Strip(SavedField(info, "socket_label")))
    IN IF socket_label \in {TrueStr, <<"1">>, <<"y", "e", "s">>} THEN TRUE
       ELSE IF socket_label \in {FalseStr, <<"0">>, <<"n", "o">>} THEN FALSE
       ELSE IF Has(cfg, "socket") THEN cfg["socket"]
       ELSE \E mt \in Range(ParsedMounts(SavedField(info, "mounts_json"))) :
               Contains(Lower(mt), DockerSock)

\* list_containers: socket_enabled, from the stored flag, else from the
\* socket label of the live entry, else from its mounts; info is EmptyDict for
\* a name without a live entry
SocketEnabled(cfg, info) ==
    IF Has(cfg, "socket") THEN cfg["socket"]
    ELSE LET socket_label == Lower(Strip(SavedField(info, "socket_label")))
         IN IF socket_label \in {TrueStr, <<"1">>, <<"y", "e", "s">>} THEN TRUE
            ELSE IF socket_label \in {FalseStr, <<"0">>, <<"n", "o">>} THEN FALSE
            ELSE \E mt \in Range(ParsedMounts(SavedField(info, "mounts_json"))) :
                    Contains(Lower(mt), DockerSock)

\* list_containers: the lines of the volumes, from the stored list when it is
\* not empty, else from the live mounts: one line per mount without
\* "docker.sock", then the count of the excluded paths
LiveVolumeLines(name, cfg, info) ==
    LET stored == SavedField(cfg, "volumes")
        volume_list ==
            IF stored # <<>> THEN stored
            ELSE SelectSeq(ParsedMounts(SavedField(info, "mounts_json")), NoDockerSock)
        shown == SelectSeq(SelectSeq(volume_list, HasColon), NoDockerSock)
        excluded_count == Len(SelectSeq(volume_list, NoColon))
    IN [i \in 1..Len(shown) |->
           <<"<disk>", " ">>
           \o format_volume_display(shown[i], SavedField(cfg, "project_path"), name)]
       \o (IF excluded_count > 0
           THEN <<<<"<noentry>", " ">> \o <<"e", "x", "c", "l", "u", "d", "e", "d", " ", "p", "a", "t", "h", "s", ":", " ">>
                  \o IntText(excluded_count)>>
           ELSE <<>>)

\* list_configs: one line per stored volume without "docker.sock", mounts
\* before excluded paths
SavedVolumeLines(name, cfg) ==
    LET volume_list == SavedField(cfg, "volumes")
        shown == SelectSeq(SelectSeq(volume_list, HasColon) \o SelectSeq(volume_list, NoColon),
                           NoDockerSock)
    IN [i \in 1..Len(shown) |->
           <<"<disk>", " ">>
           \o format_volume_display(shown[i], SavedField(cfg, "project_path"), name)]

\* config_lines of a row: the command and the socket with the mode
\* indicators, the image, the project path, the ports, the volumes, the
\* startup command.  The docker command is cfg's or, FDEVC_DOCKER not being
\* set, "docker".
ConfigLines(name, cfg, socket_enabled, volume_lines) ==
    <<<<"<laptop>", " ">>
      \o (IF SavedField(cfg, "docker_cmd") # <<>> THEN cfg["docker_cmd"]
          ELSE <<"d", "o", "c", "k", "e", "r">>)
      \o <<" ">> \o format_socket_display(socket_enabled)
      \o build_mode_indicators(name, Has(cfg, "persist") /\ cfg["persist"]),
      format_image_display(SavedField(cfg, "image"), SavedField(cfg, "project_path"))>>
    \o (IF SavedField(cfg, "project_path") # <<>>
        THEN <<<<"<folder>", " ">> \o prettify_placeholder_path(cfg["project_path"], <<>>)>>
        ELSE <<>>)
    \o (IF SavedField(cfg, "ports") # <<>>
        THEN <<format_ports_display(cfg["ports"])>> ELSE <<>>)
    \o volume_lines
    \o (IF SavedField(cfg, "startup_cmd") # <<>>
        THEN <<<<"<gear>", "<vs16>", " ">>
               \o prettify_placeholder_path(cfg["startup_cmd"],
                                            SavedField(cfg, "project_path"))>>
        ELSE <<>>)

\* the lines of the terminal that the config lines of a row take, each
\* printed after four blanks
RenderedConfig(config_lines) ==
    LET printed == [i \in 1..Len(config_lines) |->
                       SplitSep(<<" ", " ", " ", " ">> \o config_lines[i], <<"\n">>)]
        RECURSIVE Flat(_)
        Flat(ss) == IF ss = <<>> THEN <<>> ELSE Head(ss) \o Flat(Tail(ss))
    IN Flat(printed)

\* the text of the status column
StatusText(status_display) ==
    CASE status_display = "Running" -> <<"R", "u", "n", "n", "i", "n", "g">> \o <<" ", "<run>">>
      [] status_display = "Stopped" -> <<"S", "t", "o", "p", "p", "e", "d">> \o <<" ", "<stop>">>
      [] status_display = "Saved" -> <<"S", "a", "v", "e", "d">> \o <<" ", "<saved>">>

ContainersHeader == <<"F", "A", "S", "T", " ", "D", "E", "V", " ", "C", "O", "N", "T", "A", "I", "N", "E", "R", "S">>
CreatedHeader == <<"C", "R", "E", "A", "T", "E", "D">>
StatusHeader == <<"S", "T", "A", "T", "U", "S">>
TwoBlanks == <<" ", " ">>

\* the least width of the CREATED column
CREATED_MIN_WIDTH == 16

\* mutant: the CREATED column is as wide as a date, whatever the cells hold
CreatedWidthOfDate(cells) == Max({Len(CreatedHeader), CREATED_MIN_WIDTH})

\* created_width = max(len("CREATED"), max(len(row[2]) for row in rows), 16)
CreatedWidth(cells) ==
    Max({Len(CreatedHeader), CREATED_MIN_WIDTH}
        \cup {Len(cells[i].created) : i \in 1..Len(cells)})

\* max_config_width: the longest config line, a line break counted as a
\* character of the line
MaxConfigWidth(cells) ==
    Max({0} \cup UNION {{Len(cells[i].config[k]) : k \in 1..Len(cells[i].config)} :
                           i \in 1..Len(cells)})

\* The value of F at v.  TLC computes a LET definition and an argument of an
\* operator at each of their uses, and a value bound by a quantifier once:
\* the rows and the cells are computed once for a table.
ValueAt(v, F(_)) == CHOOSE r \in {F(x) : x \in {v}} : TRUE

\* list_containers: the cells of the row of index i: created is the live
\* creation time, else the stored one
ContainerCell(i, row, info, cfg) ==
    [idx |-> IntText(i),
     name |-> row.name,
     created |->
        format_created_timestamp(
            IF SavedField(info, "created_at") # <<>> THEN info["created_at"]
            ELSE SavedField(cfg, "created_at")),
     status |-> StatusText(row.status_display),
     config |->
        ConfigLines(row.name, cfg, SocketEnabled(cfg, info),
                    LiveVolumeLines(row.name, cfg, info))]

\* list_containers: the cells of all rows; a name without a live entry has
\* the info EmptyDict
ContainerCells(lines, f) ==
    LET CellsOf(docker) ==
            LET CellsOfRows(rows) ==
                    [i \in 1..Len(rows) |->
                        ContainerCell(i, rows[i],
                                      IF Has(docker, rows[i].name)
                                      THEN docker[rows[i].name] ELSE EmptyDict,
                                      RecordOf(ConfigData(f), rows[i].name))]
            IN ValueAt(ListRows(lines, f), CellsOfRows)
    IN ValueAt(ListDockerContainers(lines), CellsOf)

\* list_containers: the widths, the header and, for every row, its line and
\* its config lines
ContainerTableOf(cells) ==
    LET idx_width == Max({1} \cup {Len(cells[i].idx) : i \in 1..Len(cells)})
        created_width == CreatedWidth(cells)
        status_width ==
            Max({Len(StatusHeader)} \cup {Len(cells[i].status) : i \in 1..Len(cells)})
        max_name_width ==
            Max({Len(ContainersHeader)} \cup {Len(cells[i].name) : i \in 1..Len(cells)})
        name_width ==
            Max({NAME_MIN_WIDTH, max_name_width,
                 MaxConfigWidth(cells) - idx_width - created_width - status_width - 2})
    IN [idx_width |-> idx_width,
        name_width |-> name_width,
        created_width |-> created_width,
        status_width |-> status_width,
        table_width |-> idx_width + 2 + name_width + 2 + created_width + 2 + status_width,
        header |->
            LJust(<<"#">>, idx_width) \o TwoBlanks
            \o LJust(ContainersHeader, name_width) \o TwoBlanks
            \o RJust(CreatedHeader, created_width) \o TwoBlanks
            \o RJust(StatusHeader, status_width),
        cells |-> cells,
        lines |->
            [i \in 1..Len(cells) |->
                LJust(cells[i].idx, idx_width) \o TwoBlanks
                \o LJust(cells[i].name, name_width) \o TwoBlanks
                \o RJust(cells[i].created, created_width) \o TwoBlanks
                \o RJust(cells[i].status, status_width)],
        config |-> [i \in 1..Len(cells) |-> RenderedConfig(cells[i].config)]]

\* list_containers: the table it prints for rows that are not empty
ContainerTable(lines, f) == ValueAt(ContainerCells(lines, f), ContainerTableOf)

\* the path of the config file given to list_configs
ConfigFilePath == <<"/", "h", "/", "c", ".", "j", "s", "o", "n">>

\* list_configs: the cell of the record of a name
ConfigCell(i, name, cfg) ==
    [idx |-> IntText(i),
     name |-> name,
     created |-> format_created_timestamp(SavedField(cfg, "created_at")),
     config |->
        ConfigLines(name, cfg, Has(cfg, "socket") /\ cfg["socket"],
                    SavedVolumeLines(name, cfg))]

\* list_configs: the cells of all records, by name
ConfigCells(f) ==
    LET CellsOfNames(names) ==
            [i \in 1..Len(names) |-> ConfigCell(i, names[i], f.data[names[i]])]
    IN ValueAt(SortedSet(DOMAIN f.data), CellsOfNames)

\* list_configs: the widths, the header and, for every record, its line and
\* its config lines
ConfigsTableOf(cells) ==
    LET config_header == collapse_home_path(ConfigFilePath)
        idx_width == Max({1} \cup {Len(cells[i].idx) : i \in 1..Len(cells)})
        created_width == CreatedWidth(cells)
        max_name_width ==
            Max({Len(config_header)} \cup {Len(cells[i].name) : i \in 1..Len(cells)})
        name_width ==
            Max({NAME_MIN_WIDTH, max_name_width,
                 MaxConfigWidth(cells) - idx_width - created_width - 4})
    IN [idx_width |-> idx_width,
        name_width |-> name_width,
        created_width |-> created_width,
        table_width |-> idx_width + 2 + name_width + 2 + created_width,
        header |->
            LJust(<<"#">>, idx_width) \o TwoBlanks
            \o LJust(config_header, name_width) \o TwoBlanks
            \o RJust(CreatedHeader, created_width),
        cells |-> cells,
        lines |->
            [i \in 1..Len(cells) |->
                LJust(cells[i].idx, idx_width) \o TwoBlanks
                \o LJust(cells[i].name, name_width) \o TwoBlanks
                \o RJust(cells[i].created, created_width)],
        config |-> [i \in 1..Len(cells) |-> RenderedConfig(cells[i].config)]]

\* list_configs: the table it prints for a document that is not empty
ConfigsTable(f) == ValueAt(ConfigCells(f), ConfigsTableOf)

NoConfigurationsMessage == <<"No configurations saved">>
FailedToReadMessage == <<"Failed to read config file">>

\* list_configs: a missing file is created as {}; a file that cannot be read
\* or parsed is reported; an empty document has no table
ListConfigsResult(f) ==
    CASE f.kind = "missing" ->
            [file |-> Valid(EmptyDict),
             out |-> [NoOutput EXCEPT !.text = NoConfigurationsMessage]]
      [] f.kind \in {"unreadable", "malformed"} ->
            [file |-> f, out |-> [NoOutput EXCEPT !.text = FailedToReadMessage]]
      [] f.kind = "valid" ->
            [file |-> f,
             out |-> IF f.data = EmptyDict
                     THEN [NoOutput EXCEPT !.text = NoConfigurationsMessage]
                     ELSE [NoOutput EXCEPT !.record = ConfigsTable(f)]]

-----------------------------------------------------------------------------
(* list_containers, list_configs and resolve_index on the same input *)

NoContainersMessage == <<"No dev containers found">>

ListOutput(lines, f) ==
    IF ListRows(lines, f) = <<>>
    THEN [NoOutput EXCEPT !.text = NoContainersMessage]
    ELSE [NoOutput EXCEPT !.rows = ListRows(lines, f),
                          !.record = ContainerTable(lines, f)]

\* the value of a string of digits
RECURSIVE DigitsValue(_)
DigitsValue(s) ==
    IF s = <<>> THEN 0
    ELSE 10 * DigitsValue(SubSeq(s, 1, Len(s) - 1))
         + (CHOOSE d \in 0..9 : DigitChar[d + 1] = s[Len(s)])

\* int(index_str): surrounding whitespace and one sign are accepted
ParseInt(index_str) ==
    LET s == Strip(index_str)
        signed == s # <<>> /\ s[1] \in {"+", "-"}
        body == IF signed THEN Tail(s) ELSE s
    IN IF body # <<>> /\ \A i \in 1..Len(body) : body[i] \in Digits
       THEN [ok |-> TRUE,
             value |-> IF signed /\ s[1] = "-" THEN 0 - DigitsValue(body)
                       ELSE DigitsValue(body)]
       ELSE [ok |-> FALSE, value |-> 0]

\* combined_names = sorted(set(docker_containers.keys()) | set(config_data.keys()))
CombinedNames(lines, f) ==
    SortedSet(ResolveDockerNames(lines) \cup DOMAIN ConfigData(f))

\* mutant: an index past the end prints the last name
ResolveOutputClamped(lines, f, index_str) ==
    LET n == ParseInt(index_str)
        combined_names == CombinedNames(lines, f)
    IN IF ~n.ok \/ n.value <= 0 \/ combined_names = <<>> THEN NoOutput
       ELSE IF n.value <= Len(combined_names)
            THEN [NoOutput EXCEPT !.text = combined_names[n.value]]
            ELSE [NoOutput EXCEPT !.text = combined_names[Len(combined_names)]]

\* the line resolve_index prints
ResolveOutput(lines, f, index_str) ==
    LET n == ParseInt(index_str)
        combined_names == CombinedNames(lines, f)
    IN IF ~n.ok \/ n.value <= 0 THEN NoOutput
       ELSE IF n.value <= Len(combined_names)
            THEN [NoOutput EXCEPT !.text = combined_names[n.value]]
            ELSE NoOutput

\* the command resolve_index of the script: without an index argument it
\* prints an empty line and does not call resolve_index
ResolveDispatch(lines, f, index_str) ==
    IF index_str = None THEN NoOutput ELSE ResolveOutput(lines, f, index_str)

\* a name longer than the least width of the name column
LongName == [i \in 1..30 |-> "n"]

\* a startup command longer than the table would be without it
LongCmd == [i \in 1..60 |-> "x"]

\* a save_config call whose record makes wide cells: a long startup command,
\* a creation text that is not a timestamp, two ports, volumes of every kind
WideArgs ==
    [AllArgs(NameB) EXCEPT
        !.startup_cmd = LongCmd,
        !.created_at = <<"n", "o", " ", "t", "i", "m", "e", "s", "t", "a", "m", "p", " ", "a", "t", " ", "a", "l", "l">>,
        !.ports = <<"8", " ", "3", ":", "4">>,
        !.volumes = <<"b", ".", "v", ":", "/", "x", "|", "|", "|", "/", "h", "/", "s", ":", "/", "a", "|", "|", "|", "e">>
                    \o Pipes \o OtherSocketMount]

\* the lines the container engine may pipe in
LineSet ==
    {\* a|||Up|||i|||/var/run/docker.sock:/s: the socket among the mounts
     <<"a", "|", "|", "|", "U", "p", "|", "|", "|", "i", "|", "|", "|">>
        \o DockerSock \o <<":", "/", "s">>,
     <<"b">>,                                               \* b
     <<"c", "|", "|", "|", "E", "x">>,                      \* c|||Ex
     <<" ">>,                                               \* a blank line
     \* a|||Ex|||i|||/var/run/docker.sock:/s|||No, padded: the socket among
     \* the mounts and a socket label that says no
     <<" ", "a", "|", "|", "|", "E", "x", "|", "|", "|", "i", "|", "|", "|">>
        \o DockerSock \o <<":", "/", "s", "|", "|", "|", "N", "o", " ">>,
     LongName \o <<"|", "|", "|", "U", "p">>,
     \* c|||Ex|||i|||/m:/x,e|||true|||T3Z: mounts, socket label and date
     <<"c", "|", "|", "|", "E", "x", "|", "|", "|", "i", "|", "|", "|", "/", "m", ":", "/", "x", ",", "e", "|", "|", "|", "t", "r", "u", "e", "|", "|", "|", "T", "3", "Z">>}

IndexArgs ==
    {<<"0">>, <<"1">>, <<"2">>, <<"3">>, <<"4">>, <<"-", "1">>, <<" ", "2">>,
     <<"x">>, <<>>, None}

ListFiles ==
    {Missing, Unreadable, Malformed}
    \cup {Valid(d) : d \in InitDocs}
    \cup {Valid(SaveData(EmptyDict, NoArgs(NameB), 0)),
          Valid(SaveData(SaveData(EmptyDict,
                                  [NoArgs(NameA) EXCEPT !.socket_state = TrueStr], 0),
                         NoArgs(NameB), 0)),
          Valid(SaveData(EmptyDict, WideArgs, 0))}

InitList ==
    /\ file \in ListFiles
    /\ stdin \in SeqsUpTo(LineSet, MaxLines)
    /\ now = 0
    /\ steps = 0
    /\ last = Invocation("none", NoArgs(NameA), file, 0)
    /\ out = NoOutput
    /\ pc = NoProcs
    /\ local = NoProcs
    /\ pargs = NoProcs

ListContainers ==
    /\ last' = Invocation("list", NoArgs(NameA), file, now)
    /\ out' = ListOutput(stdin, file)
    /\ UNCHANGED <<file, now, steps, stdin, pc, local, pargs>>

ResolveIndex ==
    \E index_str \in IndexArgs :
        /\ last' = [Invocation("resolve", NoArgs(NameA), file, now)
                        EXCEPT !.index = index_str]
        /\ out' = ResolveDispatch(stdin, file, index_str)
        /\ UNCHANGED <<file, now, steps, stdin, pc, local, pargs>>

ListConfigs ==
    /\ last' = Invocation("configs", NoArgs(NameA), file, now)
    /\ file' = ListConfigsResult(file).file
    /\ out' = ListConfigsResult(file).out
    /\ UNCHANGED <<now, steps, stdin, pc, local, pargs>>

NextList == ListContainers \/ ResolveIndex \/ ListConfigs

SpecList == InitList /\ [][NextList]_vars

\* C1: resolve_index at position k prints the name that list_containers
\* renders as row k for the same piped lines and the same config file.
C1_ResolveMatchesList ==
    last.op = "resolve" =>
        LET rows == ListRows(stdin, file)
            k == ParseInt(last.index).value
        IN (ParseInt(last.index).ok /\ k \in 1..Len(rows)) =>
              out.text = rows[k].name

-----------------------------------------------------------------------------
(* Claims about the tables, checked under SpecList *)

\* the last invocation printed a table
TablePrinted(op) == last.op = op /\ out.status = "ok" /\ out.record # EmptyDict

\* C18: in the tables of list_containers and of list_configs no secondary
\* line, with its four blanks, is wider than the table.
C18_NothingWraps ==
    (TablePrinted("list") \/ TablePrinted("configs")) =>
        \A i \in 1..Len(out.record.config) :
            \A k \in 1..Len(out.record.config[i]) :
                Len(out.record.config[i][k]) <= out.record.table_width

\* C19: in the table of list_containers the header and every row line are as
\* wide as the table; each of the four columns is at least as wide as its
\* label and as its widest cell; the name column is at least 28 wide.
C19_ContainersTableAligned ==
    TablePrinted("list") =>
        LET t == out.record
        IN /\ t.table_width
                = t.idx_width + 2 + t.name_width + 2 + t.created_width + 2
                  + t.status_width
           /\ Len(t.header) = t.table_width
           /\ \A i \in 1..Len(t.lines) : Len(t.lines[i]) = t.table_width
           /\ t.idx_width >= 1
           /\ t.name_width >= 19 /\ t.name_width >= 28
           /\ t.created_width >= 7
           /\ t.status_width >= 6
           /\ \A i \in 1..Len(t.cells) :
                 /\ t.idx_width >= Len(t.cells[i].idx)
                 /\ t.name_width >= Len(t.cells[i].name)
                 /\ t.created_width >= Len(t.cells[i].created)
                 /\ t.status_width >= Len(t.cells[i].status)

\* a table whose widest name and widest creation text are wider than the
\* least widths of their columns, in different rows
C19_Witness ==
    /\ TablePrinted("list")
    /\ Len(out.record.lines) >= 2
    /\ \E i \in 1..Len(out.record.cells) : Len(out.record.cells[i].name) = 30
    /\ \E i \in 1..Len(out.record.cells) : Len(out.record.cells[i].created) = 19
    /\ \E i \in 1..Len(out.record.cells) : Len(out.record.cells[i].created) = 0

\* the lines of the input that are live entries, and their names
LiveLines ==
    {i \in 1..Len(stdin) : Strip(stdin[i]) # <<>> /\ Len(LineParts(stdin[i])) >= 2}
LiveNames == {LineParts(stdin[i])[1] : i \in LiveLines}
StoredNames == IF file.kind = "valid" THEN DOMAIN file.data ELSE {}

\* the status text of the live entry of a name: of the last one, when the
\* input names it more than once
LiveStatus(n) ==
    LineParts(stdin[Max({i \in LiveLines : LineParts(stdin[i])[1] = n})])[2]

\* C20: list_containers gives every name that is live or stored exactly one
\* row, and no other row; the row says Running when the live entry of the
\* name has "Up" in its status, Stopped when it has not, and Saved exactly when
\* the name is stored and not live.
C20_OneRowPerNameWithStatus ==
    last.op = "list" =>
        /\ \A n \in LiveNames \cup StoredNames :
              Cardinality({k \in 1..Len(out.rows) : out.rows[k].name = n}) = 1
        /\ \A k \in 1..Len(out.rows) :
              LET n == out.rows[k].name
              IN /\ n \in LiveNames \cup StoredNames
                 /\ (out.rows[k].status_display = "Saved")
                        = (n \in StoredNames \ LiveNames)
                 /\ n \in LiveNames =>
                       out.rows[k].status_display
                           = IF Contains(LiveStatus(n), UpStr) THEN "Running"
                             ELSE "Stopped"

\* a listing with a running, a stopped and a saved row, the running name
\* being stored too
C20_Witness ==
    /\ last.op = "list"
    /\ Len(out.rows) = 3
    /\ {out.rows[k].status_display : k \in 1..3} = {"Running", "Stopped", "Saved"}
    /\ \E k \in 1..3 :
          /\ out.rows[k].status_display = "Running"
          /\ out.rows[k].name \in StoredNames

\* field k of the live entry of a name (of its last one), "" when the name
\* has no live entry or the entry has fewer fields
LiveField(n, k) ==
    IF n \in LiveNames
    THEN PartOr(LineParts(stdin[Max({i \in LiveLines : LineParts(stdin[i])[1] = n})]), k)
    ELSE <<>>

SocketHintYes == {TrueStr, <<"1">>, <<"y", "e", "s">>}
SocketHintNo == {FalseStr, <<"0">>, <<"n", "o">>}

\* the socket flag that row i of the table shows: the mark before "socket" in
\* its first config line
ShownSocketEnabled(i) == "<check>" \in Range(out.record.cells[i].config[1])

\* the stored record of the name of row i
RowStored(i) == RecordOf(ConfigData(file), out.record.cells[i].name)

\* C21 as claimed: the stored socket value decides alone; else the live hint,
\* when it is one of true/1/yes or false/0/no; else the flag is true exactly
\* when /var/run/docker.sock occurs in a parsed live mount.
C21_SocketPrecedenceAsWritten ==
    TablePrinted("list") =>
        \A i \in 1..Len(out.record.cells) :
            LET n == out.record.cells[i].name
                hint == LiveField(n, 5)
            IN ShownSocketEnabled(i)
                   = IF Has(RowStored(i), "socket") THEN RowStored(i)["socket"]
                     ELSE IF hint \in SocketHintYes THEN TRUE
                     ELSE IF hint \in SocketHintNo THEN FALSE
                     ELSE \E mt \in Range(ParsedMounts(LiveField(n, 4))) :
                             Contains(mt, DockerSock)

\* C21: the same precedence, the hint being compared after trimming and in
\* lower case, and the path being looked for in the lower-cased mounts.
C21_SocketPrecedence ==
    TablePrinted("list") =>
        \A i \in 1..Len(out.record.cells) :
            LET n == out.record.cells[i].name
                hint == Lower(Strip(LiveField(n, 5)))
            IN ShownSocketEnabled(i)
                   = IF Has(RowStored(i), "socket") THEN RowStored(i)["socket"]
                     ELSE IF hint \in SocketHintYes THEN TRUE
                     ELSE IF hint \in SocketHintNo THEN FALSE
                     ELSE \E mt \in Range(ParsedMounts(LiveField(n, 4))) :
                             Contains(Lower(mt), DockerSock)

\* a table with: a row whose stored value true wins over a hint that says no;
\* a row without stored value whose hint true wins over mounts without the
\* socket
C21_Witness ==
    /\ TablePrinted("list")
    /\ \E i \in 1..Len(out.record.cells) :
          /\ Has(RowStored(i), "socket") /\ RowStored(i)["socket"]
          /\ Lower(LiveField(out.record.cells[i].name, 5)) \in SocketHintNo
          /\ ShownSocketEnabled(i)
    /\ \E i \in 1..Len(out.record.cells) :
          /\ ~Has(RowStored(i), "socket")
          /\ LiveField(out.record.cells[i].name, 5) \in SocketHintYes
          /\ LiveField(out.record.cells[i].name, 4) # <<>>
          /\ ShownSocketEnabled(i)

\* a row without stored value and without hint, the socket among its mounts
C21_WitnessMounts ==
    /\ TablePrinted("list")
    /\ \E i \in 1..Len(out.record.cells) :
          /\ ~Has(RowStored(i), "socket")
          /\ LiveField(out.record.cells[i].name, 5) = <<>>
          /\ LiveField(out.record.cells[i].name, 4) # <<>>
          /\ ShownSocketEnabled(i)

-----------------------------------------------------------------------------
(* Claims about resolve_index, checked under SpecList *)

\* the names resolve_index numbers: the first field of every line that is
\* not blank, and the stored names
ResolvedNames ==
    {LineParts(stdin[i])[1] : i \in {j \in 1..Len(stdin) : Strip(stdin[j]) # <<>>}}
    \cup StoredNames

\* the index argument is a number n with 1 <= n <= size
IndexInRange ==
    /\ last.index # None
    /\ ParseInt(last.index).ok
    /\ ParseInt(last.index).value \in 1..Cardinality(ResolvedNames)

\* C22: resolve_index ends normally for every index argument; it prints a
\* name, the n-th of the sorted names, only for a number n with
\* 1 <= n <= size, and an empty line for an argument that is missing, not a
\* number, zero, negative or greater than size.
C22_ResolveNeverFails ==
    last.op = "resolve" =>
        /\ out.status = "ok"
        /\ out.record = EmptyDict
        /\ IF IndexInRange
           THEN /\ out.text \in ResolvedNames
                /\ Cardinality({m \in ResolvedNames : StrLess(m, out.text)})
                      = ParseInt(last.index).value - 1
           ELSE out.text = <<>>

\* an index greater than the size of a union that is not empty
C22_Witness ==
    /\ last.op = "resolve"
    /\ ParseInt(last.index).ok
    /\ Cardinality(ResolvedNames) \in 1..3
    /\ ParseInt(last.index).value = Cardinality(ResolvedNames) + 1
    /\ out = NoOutput

\* an argument that is not a number, and a negative one, names being there
C22_WitnessNotANumber ==
    /\ last.op = "resolve"
    /\ last.index = <<"x">>
    /\ ResolvedNames # {}
    /\ out = NoOutput
C22_WitnessNegative ==
    /\ last.op = "resolve"
    /\ last.index = <<"-", "1">>
    /\ ResolvedNames # {}
    /\ out = NoOutput

-----------------------------------------------------------------------------
(* Two invocations of save_config or remove_config on the same file, the
   write of a document being two steps: open(config_file, "w"), which
   truncates, and json.dump *)

\* the names the two invocations target; NameC is targeted by neither
RaceTargets == {NameA, NameB}

\* the document before: it holds a record of NameC
RaceDocs ==
    {SaveData(EmptyDict, AllArgs(NameC), 0),
     SaveData(SaveData(EmptyDict, AllArgs(NameC), 0),
              [AllArgs(NameA) EXCEPT !.created_at = <<>>], 0)}

\* pc is "start" for an invocation of save_config and "remove" for one of
\* remove_config, of which only the name is an argument
InitRaceAny ==
    /\ file \in {Valid(d) : d \in RaceDocs}
    /\ pc \in [Procs -> {"start", "remove"}]
    /\ pargs \in [Procs -> {NoArgs(n) : n \in RaceTargets}
                           \cup {AllArgs(n) : n \in RaceTargets}]
    /\ \A p \in Procs : pc[p] = "remove" => pargs[p] \in {NoArgs(n) : n \in RaceTargets}
    /\ local = [p \in Procs |-> EmptyDict]
    /\ now = 0
    /\ steps = 0
    /\ stdin = <<>>
    /\ last = Invocation("race", NoArgs(NameA), file, 0)
    /\ out = NoOutput

\* remove_config, lines 480-485: the document is read and the name popped;
\* lines 487-488: when json.load raises, nothing is written
RemoveRead(p) ==
    /\ pc[p] = "remove"
    /\ IF file.kind = "valid"
       THEN /\ local' = [local EXCEPT ![p] = Pop(file.data, pargs[p].name)]
            /\ pc' = [pc EXCEPT ![p] = "read"]
            /\ last' = [last EXCEPT !.trace = Append(@, Event(p, "read"))]
       ELSE /\ local' = local
            /\ pc' = [pc EXCEPT ![p] = "done"]
            /\ last' = [last EXCEPT !.trace = Append(@, Event(p, "skip"))]
    /\ UNCHANGED <<file, now, steps, stdin, out, pargs>>

NextRaceAny ==
    \E p \in Procs : RaceRead(p) \/ RemoveRead(p) \/ RaceOpen(p) \/ RaceDump(p)

SpecRaceAny == InitRaceAny /\ [][NextRaceAny]_vars

\* both invocations returned
BothDone == last.op = "race" /\ \A p \in Procs : pc[p] = "done"

\* C23: whatever the interleaving of two invocations of save_config or
\* remove_config that target NameA and NameB, the record of NameC, which was
\* in the document before, is in the final document, unchanged.
C23_ThirdRecordKept ==
    BothDone =>
        /\ file.kind = "valid"
        /\ Has(file.data, NameC)
        /\ file.data[NameC] = last.pre.data[NameC]

\* the same for the interleavings in which no invocation reads the file
\* between an open for writing and the dump that follows it
ReadWhileTruncated ==
    \E i \in 2..Len(last.trace) :
        /\ last.trace[i].ev \in {"read", "skip"}
        /\ last.trace[i - 1].ev = "open"
ThirdRecordKeptUnlessTruncated ==
    (BothDone /\ ~ReadWhileTruncated) =>
        /\ file.kind = "valid"
        /\ Has(file.data, NameC)
        /\ file.data[NameC] = last.pre.data[NameC]

\* save_config reads the file another invocation has just truncated, and the
\* final document has lost the record of NameC
ThirdRecordLost ==
    /\ BothDone
    /\ ReadWhileTruncated
    /\ file.kind = "valid"
    /\ ~Has(file.data, NameC)

-----------------------------------------------------------------------------
(* compare_configs right after save_config, with the same values *)

\* the arguments of the compare_configs call that passes the values of a
\* save_config call; a socket_state that was not passed is new_socket = ""
SameValues(a) == [a EXCEPT !.socket_state = IF @ = None THEN <<>> ELSE @]

\* compare_configs follows a save_config that returned; last.args and
\* last.pre stay those of the save_config call, of which it passes the values
CompareSaved ==
    /\ SaveDone
    /\ last' = [last EXCEPT !.op = "compare_saved"]
    /\ out' = CompareOutput(file, SameValues(last.args))
    /\ UNCHANGED <<file, now, steps, stdin, pc, local, pargs>>

NextSaved == Next \/ CompareSaved

SpecSaved == Init /\ [][NextSaved]_vars

\* C24: a compare_configs call that follows save_config(name, ...) and
\* passes the same ports, image, docker_cmd, project_path, socket and volumes
\* reports differs = false.
C24_SavedComparesEqual ==
    last.op = "compare_saved" => out.status = "ok" /\ ~out.record.differs

\* the same for a name that had no record before the save_config call
SavedFreshComparesEqual ==
    (last.op = "compare_saved" /\ PreRec = EmptyDict) =>
        out.status = "ok" /\ ~out.record.differs

\* the calls whose values save_config stores as compare_configs reads them:
\* ports, image and docker_cmd are given or were not stored, and the socket
\* value is given and is true or false in any case, or means nothing to both
StoredAsCompared ==
    /\ \A k \in {"ports", "image", "docker_cmd"} :
          last.args[k] = <<>> => SavedField(PreRec, k) = <<>>
    /\ last.args.socket_state # None
    /\ \/ Lower(Strip(last.args.socket_state)) \in {TrueStr, FalseStr}
       \/ normalize_socket(last.args.socket_state) = <<>>
SavedComparesEqualWhenStored ==
    (last.op = "compare_saved" /\ StoredAsCompared) =>
        out.status = "ok" /\ ~out.record.differs

\* a first save_config with socket_state "1": nothing is stored for the
\* socket, and compare_configs reads "1" as true
SavedSocketDiffers ==
    /\ last.op = "compare_saved"
    /\ PreRec = EmptyDict
    /\ last.args.socket_state = <<"1">>
    /\ out.record.changes = <<"socket">>

\* a save_config that gives no image for a record that has one
SavedKeptImageDiffers ==
    /\ last.op = "compare_saved"
    /\ last.args.image = <<>>
    /\ SavedField(PreRec, "image") # <<>>
    /\ "image" \in Range(out.record.changes)

\* a comparison of what was saved that finds no difference, every value given
SavedComparedEqual ==
    /\ last.op = "compare_saved"
    /\ last.args.ports # <<>> /\ last.args.volumes # <<>>
    /\ last.args.socket_state # None
    /\ out.record = NoChanges

-----------------------------------------------------------------------------
(* The frame of save_config and remove_config, checked under Spec *)

\* the names of the document before the last invocation, and after it
NamesBefore == DOMAIN ReadOrEmpty(last.pre)
NamesAfter == DOMAIN ReadOrEmpty(file)

\* C25: on a valid document save_config(name, ...) and remove_config(name)
\* change only the record of name: the record of every other name is the
\* same after the call as before, and no other name is added or removed.
C25_OnlyNamedRecordChanges ==
    (last.op \in {"save", "remove"} /\ last.pre.kind = "valid") =>
        /\ out.status = "ok"
        /\ file.kind = "valid"
        /\ NamesAfter \ {last.args.name} = NamesBefore \ {last.args.name}
        /\ \A n \in NamesBefore \ {last.args.name} : file.data[n] = last.pre.data[n]

\* remove_config took the record of a name out of a document that holds
\* another one
C25_Witness ==
    /\ last.op = "remove"
    /\ last.pre.kind = "valid"
    /\ last.args.name \in NamesBefore
    /\ NamesBefore \ {last.args.name} # {}
    /\ NamesAfter = NamesBefore \ {last.args.name}

\* save_config changed the record of a name, and added one, in a document
\* that holds another one
C25_WitnessSave ==
    /\ last.op = "save"
    /\ last.pre.kind = "valid"
    /\ last.args.name \in NamesBefore
    /\ NamesBefore \ {last.args.name} # {}
    /\ Rec # PreRec
C25_WitnessSaveNew ==
    /\ last.op = "save"
    /\ last.pre.kind = "valid"
    /\ last.args.name \notin NamesBefore
    /\ NamesBefore # {}
    /\ NamesAfter = NamesBefore \cup {last.args.name}

-----------------------------------------------------------------------------
(* normalize_volumes applied to what it printed *)

\* a project_path that is given relative to the working directory
RelativeProject == <<".", "/", "q">>

\* the calls of SpecNorm, and calls with the relative project_path
TwiceArgs ==
    NormArgs
    \cup {[NoArgs(<<"c">>) EXCEPT !.volumes = Join(vs, Pipes),
                                  !.project_path = RelativeProject] :
             vs \in SeqsUpTo(NormEntries, 1)}

NormalizeOnce ==
    \E a \in TwiceArgs :
        /\ last.op = "none"
        /\ last' = Invocation("normalize", a, file, now)
        /\ out' = [NoOutput EXCEPT
                      !.text = normalize_volumes(a.volumes, a.name, a.project_path)]
        /\ UNCHANGED <<file, now, steps, stdin, pc, local, pargs>>

\* the second call is given what the first one printed, with the same
\* container_name and project_path; last.index keeps what the first printed
NormalizeAgain ==
    /\ last.op = "normalize"
    /\ last' = [last EXCEPT !.op = "normalize_again", !.index = out.text]
    /\ out' = [NoOutput EXCEPT
                  !.text = normalize_volumes(out.text, last.args.name,
                                             last.args.project_path)]
    /\ UNCHANGED <<file, now, steps, stdin, pc, local, pargs>>

NextNormTwice == NormalizeOnce \/ NormalizeAgain

SpecNormTwice == InitNorm /\ [][NextNormTwice]_vars

\* C26: normalize_volumes applied to its own output, with the same
\* container_name and project_path, prints that output again.
C26_NormalizeIdempotent ==
    last.op = "normalize_again" => out.text = last.index

\* the same for a project_path that does not start with "./"
IdempotentUnlessRelativeProject ==
    (last.op = "normalize_again"
     /\ ~StartsWith(last.args.project_path, <<".", "/">>)) =>
        out.text = last.index

\* with project_path ./q the mount __PROJECT_PATH__/s:/a is printed as
\* __PROJECT_PATH__/q/s:/a, and that as __PROJECT_PATH__/q/q/s:/a
RelativeProjectGrows ==
    /\ last.op = "normalize_again"
    /\ last.args.project_path = RelativeProject
    /\ last.args.volumes = ProjectPlaceholder \o <<"/", "s", ":", "/", "a">>
    /\ last.index = ProjectPlaceholder \o <<"/", "q", "/", "s", ":", "/", "a">>
    /\ out.text = ProjectPlaceholder \o <<"/", "q", "/", "q", "/", "s", ":", "/", "a">>

\* a first call that rewrote its two entries and a second that changed
\* nothing
NormalizedTwiceSame ==
    /\ last.op = "normalize_again"
    /\ last.args.project_path = <<"/", "p">>
    /\ last.args.volumes = <<"d", "|", "|", "|", ".", "/", "s", ":", "/", "a">>
    /\ last.index = ProjectPlaceholder \o <<"/", "s", ":", "/", "a", "|", "|", "|", "c", ".", "d">>
    /\ out.text = last.index

====
